---- MODULE Spec2Model ----
(***************************************************************************)
(* Order-book replication service (market-data crate).                     *)
(*                                                                         *)
(* The module models                                                       *)
(*   - OrderBook (orderbook/book.rs): the two price ladders, snapshot      *)
(*     initialisation, diff application, depth trimming;                   *)
(*   - OrderBookManager (orderbook/manager.rs): books keyed by symbol;     *)
(*   - WebSocketManager (websocket/manager.rs): the run loop, connect,     *)
(*     snapshot fetch, message processing;                                 *)
(*   - the exchange as environment: it numbers its updates per symbol and  *)
(*     emits depth diffs [U, u] that reach the open stream or are lost.    *)
(*                                                                         *)
(* Decimal prices and quantities are integers: the code only compares      *)
(* them with each other and with zero on the paths modelled here.          *)
(* A BTreeMap is a function whose DOMAIN is the set of keys; its iteration *)
(* order is the order of the keys.                                         *)
(***************************************************************************)
EXTENDS Integers, Sequences, FiniteSets, TLC

(***************************************************************************)
(* Bounds of the model.                                                    *)
(***************************************************************************)
\* prices are 1..MaxPrice
MaxPrice == 2
\* update ids are 0..MaxId
MaxId == 2
\* update ids the exchange uses in a run of the service, all symbols together
MaxUpdates == 3
\* levels carried by one snapshot or one diff (both sides together)
MaxLevels == 1
\* max_depth of a book built directly with OrderBook::new is 1..MaxDepth
MaxDepth == 2

\* frames the transport holds between the exchange and recv()
MaxInbox == 2
\* consecutive failures of connect() the environment produces
MaxAttempts == 2
\* status-logger tasks the service spawns in a run
MaxLoggers == 2
MaxFailures == 8
MaxSilentTicks == 7
MaxPings == 2
\* publish calls that overlap, calls each caller makes, connections the
\* consumer accepts
MaxTasks == 2
MaxCalls == 1
MaxConns == 1

Prices == 1..MaxPrice
\* a negative, the zero and a positive Decimal
Quantities == {-1, 0, 1}
EventTimes == {1}

Level == [price : Prices, quantity : Quantities]

Max(S) == CHOOSE x \in S : \A y \in S : y <= x
Min(S) == CHOOSE x \in S : \A y \in S : x <= y

(***************************************************************************)
(* BTreeMap operations.                                                    *)
(***************************************************************************)
EmptyMap == [k \in {} |-> 0]

\* BTreeMap::insert: adds the key or overwrites its value
MapInsert(m, k, v) == [x \in (DOMAIN m) \cup {k} |-> IF x = k THEN v ELSE m[x]]

\* BTreeMap::remove: nothing happens when the key is absent
MapRemove(m, k) == [x \in (DOMAIN m) \ {k} |-> m[x]]

\* a bid ladder keyed without Reverse: its last key is the highest price
BidsPopLast_unreversed(m) ==
    IF DOMAIN m = {} THEN m ELSE MapRemove(m, Max(DOMAIN m))

\* bids: BTreeMap<Reverse<Decimal>, _>: the last key is the lowest price
BidsPopLast(m) == IF DOMAIN m = {} THEN m ELSE MapRemove(m, Min(DOMAIN m))

\* an ask ladder that gives up its lowest price
AsksPopLast_lowest(m) ==
    IF DOMAIN m = {} THEN m ELSE MapRemove(m, Min(DOMAIN m))

\* asks: BTreeMap<Decimal, _>: the last key is the highest price
AsksPopLast(m) == IF DOMAIN m = {} THEN m ELSE MapRemove(m, Max(DOMAIN m))

(***************************************************************************)
(* OrderBook                                                               *)
(***************************************************************************)
OrderBook_new(symbol, max_depth) ==
    [symbol |-> symbol, bids |-> EmptyMap, asks |-> EmptyMap,
     last_update_id |-> 0, initialized |-> FALSE, max_depth |-> max_depth,
     last_update_time |-> 0]

RECURSIVE TrimBids(_, _)
TrimBids(m, max_depth) ==
    IF Cardinality(DOMAIN m) > max_depth
    THEN TrimBids(BidsPopLast(m), max_depth) ELSE m

RECURSIVE TrimAsks(_, _)
TrimAsks(m, max_depth) ==
    IF Cardinality(DOMAIN m) > max_depth
    THEN TrimAsks(AsksPopLast(m), max_depth) ELSE m

\* a trim that forgets the ask side
trim_depth_bids_only(b) ==
    [b EXCEPT !.bids = TrimBids(b.bids, b.max_depth)]

trim_depth(b) ==
    [b EXCEPT !.bids = TrimBids(b.bids, b.max_depth),
              !.asks = TrimAsks(b.asks, b.max_depth)]

\* the loops of init_snapshot: levels with quantity > 0 are inserted in order
RECURSIVE InsertPositive(_, _)
InsertPositive(m, levels) ==
    IF levels = <<>> THEN m
    ELSE InsertPositive(
            IF Head(levels).quantity > 0
            THEN MapInsert(m, Head(levels).price, Head(levels).quantity)
            ELSE m,
            Tail(levels))

\* a snapshot install that does not clear the ladders first
init_snapshot_no_clear(b, snapshot) ==
    trim_depth([b EXCEPT
        !.bids = InsertPositive(b.bids, snapshot.bids),
        !.asks = InsertPositive(b.asks, snapshot.asks),
        !.last_update_id = snapshot.last_update_id,
        !.initialized = TRUE])

init_snapshot(b, snapshot) ==
    trim_depth([b EXCEPT
        !.bids = InsertPositive(EmptyMap, snapshot.bids),
        !.asks = InsertPositive(EmptyMap, snapshot.asks),
        !.last_update_id = snapshot.last_update_id,
        !.initialized = TRUE])

\* update_side on one ladder: quantity == 0 removes, anything else overwrites
\* a level update that stores a zero quantity instead of removing the price
update_side_never_removes(m, level) ==
    MapInsert(m, level.price, level.quantity)

update_side(m, level) ==
    IF level.quantity = 0
    THEN MapRemove(m, level.price)
    ELSE MapInsert(m, level.price, level.quantity)

RECURSIVE UpdateLevels(_, _)
UpdateLevels(m, levels) ==
    IF levels = <<>> THEN m
    ELSE UpdateLevels(update_side(m, Head(levels)), Tail(levels))

\* a diff check that also demands U == last_update_id + 1
apply_update_strict(b, update) ==
    IF ~b.initialized THEN [book |-> b, ret |-> FALSE]
    ELSE IF \/ update.final_update_id <= b.last_update_id
            \/ update.first_update_id # b.last_update_id + 1
    THEN [book |-> b, ret |-> FALSE]
    ELSE [book |-> trim_depth([b EXCEPT
                    !.bids = UpdateLevels(b.bids, update.bids),
                    !.asks = UpdateLevels(b.asks, update.asks),
                    !.last_update_id = update.final_update_id,
                    !.last_update_time = update.event_time]),
          ret |-> TRUE]

\* a stale test that lets final_update_id == last_update_id through
apply_update_stale_lt(b, update) ==
    IF ~b.initialized THEN [book |-> b, ret |-> FALSE]
    ELSE IF update.final_update_id < b.last_update_id
    THEN [book |-> b, ret |-> FALSE]
    ELSE [book |-> trim_depth([b EXCEPT
                    !.bids = UpdateLevels(b.bids, update.bids),
                    !.asks = UpdateLevels(b.asks, update.asks),
                    !.last_update_id = update.final_update_id,
                    !.last_update_time = update.event_time]),
          ret |-> TRUE]

\* a diff application that refuses a diff leaving best bid >= best ask
apply_update_rejects_cross(b, update) ==
    LET bids == UpdateLevels(b.bids, update.bids)
        asks == UpdateLevels(b.asks, update.asks)
    IN
    IF ~b.initialized THEN [book |-> b, ret |-> FALSE]
    ELSE IF update.final_update_id <= b.last_update_id
    THEN [book |-> b, ret |-> FALSE]
    ELSE IF /\ DOMAIN bids # {} /\ DOMAIN asks # {}
            /\ Max(DOMAIN bids) >= Min(DOMAIN asks)
    THEN [book |-> b, ret |-> FALSE]
    ELSE [book |-> trim_depth([b EXCEPT
                    !.bids = bids,
                    !.asks = asks,
                    !.last_update_id = update.final_update_id,
                    !.last_update_time = update.event_time]),
          ret |-> TRUE]

\* a diff application that records U instead of u
apply_update_first_id(b, update) ==
    IF ~b.initialized THEN [book |-> b, ret |-> FALSE]
    ELSE IF update.final_update_id <= b.last_update_id
    THEN [book |-> b, ret |-> FALSE]
    ELSE [book |-> trim_depth([b EXCEPT
                    !.bids = UpdateLevels(b.bids, update.bids),
                    !.asks = UpdateLevels(b.asks, update.asks),
                    !.last_update_id = update.first_update_id,
                    !.last_update_time = update.event_time]),
          ret |-> TRUE]

\* apply_update: the book it leaves and the bool it returns
apply_update(b, update) ==
    IF ~b.initialized THEN [book |-> b, ret |-> FALSE]
    ELSE IF update.final_update_id <= b.last_update_id
    THEN [book |-> b, ret |-> FALSE]
    ELSE [book |-> trim_depth([b EXCEPT
                    !.bids = UpdateLevels(b.bids, update.bids),
                    !.asks = UpdateLevels(b.asks, update.asks),
                    !.last_update_id = update.final_update_id,
                    !.last_update_time = update.event_time]),
          ret |-> TRUE]

(***************************************************************************)
(* OrderBookManager: books is the HashMap<String, OrderBook>.              *)
(***************************************************************************)
\* OrderBookManager::new: the depth is the literal 20
DefaultDepth == 20

OrderBookManager_new == [books |-> EmptyMap, max_depth |-> DefaultDepth]

OrderBookManager_with_depth(max_depth) ==
    [books |-> EmptyMap, max_depth |-> max_depth]

\* init_book: a new book replaces the one stored under the symbol
init_book(m, symbol, snapshot) ==
    [m EXCEPT !.books =
        MapInsert(m.books, symbol,
                  init_snapshot(OrderBook_new(symbol, m.max_depth), snapshot))]

\* a dispatch that falls back on some book when the symbol has none
manager_apply_update_any_book(m, update) ==
    IF DOMAIN m.books = {} THEN [manager |-> m, ret |-> FALSE]
    ELSE LET key == IF update.symbol \in DOMAIN m.books THEN update.symbol
                    ELSE CHOOSE k \in DOMAIN m.books : TRUE
         IN  [manager |-> [m EXCEPT !.books[key] =
                              apply_update(m.books[key], update).book],
              ret |-> apply_update(m.books[key], update).ret]

\* OrderBookManager::apply_update: the manager it leaves, the bool it returns
manager_apply_update(m, update) ==
    IF update.symbol \in DOMAIN m.books
    THEN [manager |-> [m EXCEPT !.books[update.symbol] =
                          apply_update(m.books[update.symbol], update).book],
          ret |-> apply_update(m.books[update.symbol], update).ret]
    ELSE [manager |-> m, ret |-> FALSE]

\* Option<Decimal>; a Decimal that a division made is kept as num / den
None == [some |-> FALSE, num |-> 0, den |-> 1]
Some(num, den) == [some |-> TRUE, num |-> num, den |-> den]

\* a bid ladder keyed without Reverse: its first key is the lowest price
BidsFirstKey_unreversed(m) == Min(DOMAIN m)

\* bids: BTreeMap<Reverse<Decimal>, _>: the first key is the highest price
BidsFirstKey(m) == Max(DOMAIN m)

\* asks: BTreeMap<Decimal, _>: the first key is the lowest price
AsksFirstKey(m) == Min(DOMAIN m)

\* bids.iter(): the levels from the first key on
RECURSIVE bids_iter(_)
bids_iter(m) ==
    IF DOMAIN m = {} THEN <<>>
    ELSE LET k == BidsFirstKey(m)
         IN  <<[price |-> k, quantity |-> m[k]]>> \o bids_iter(MapRemove(m, k))

RECURSIVE asks_iter(_)
asks_iter(m) ==
    IF DOMAIN m = {} THEN <<>>
    ELSE LET k == AsksFirstKey(m)
         IN  <<[price |-> k, quantity |-> m[k]]>> \o asks_iter(MapRemove(m, k))

\* Iterator::take and the sum of the quantities
take(levels, n) == SubSeq(levels, 1, IF n < Len(levels) THEN n ELSE Len(levels))

RECURSIVE sum(_)
sum(levels) ==
    IF levels = <<>> THEN 0 ELSE Head(levels).quantity + sum(Tail(levels))

best_bid(b) ==
    IF DOMAIN b.bids = {} THEN None ELSE Some(BidsFirstKey(b.bids), 1)

best_ask(b) ==
    IF DOMAIN b.asks = {} THEN None ELSE Some(AsksFirstKey(b.asks), 1)

mid_price(b) ==
    IF best_bid(b).some /\ best_ask(b).some
    THEN Some(best_bid(b).num + best_ask(b).num, 2)
    ELSE None

\* an imbalance that is zero where there is no volume
imbalance_zero_when_empty(b, levels) ==
    LET bid_volume == sum(take(bids_iter(b.bids), levels))
        ask_volume == sum(take(asks_iter(b.asks), levels))
        total == bid_volume + ask_volume
    IN  IF total > 0 THEN Some(bid_volume - ask_volume, total)
        ELSE Some(0, 1)

\* OrderBook::imbalance
imbalance(b, levels) ==
    LET bid_volume == sum(take(bids_iter(b.bids), levels))
        ask_volume == sum(take(asks_iter(b.asks), levels))
        total == bid_volume + ask_volume
    IN  IF total > 0 THEN Some(bid_volume - ask_volume, total) ELSE None

\* OrderBook::state: the two Vec<Level> and the metrics read here
OrderBookState(b) ==
    [symbol |-> b.symbol, timestamp |-> b.last_update_time,
     last_update_id |-> b.last_update_id,
     bids |-> bids_iter(b.bids), asks |-> asks_iter(b.asks),
     mid_price |-> mid_price(b), imbalance |-> imbalance(b, 5)]

\* OrderBook::state without the derived metrics
state(b) ==
    [symbol |-> b.symbol, timestamp |-> b.last_update_time,
     last_update_id |-> b.last_update_id, bids |-> b.bids, asks |-> b.asks]

\* get_state, where the symbol has a book
get_state(m, symbol) == state(m.books[symbol])

(***************************************************************************)
(* parser.rs.  A text frame is kept by its JSON structure: whether it is   *)
(* JSON at all, the "stream" name of a combined-stream wrapper ("none" for *)
(* a bare object) and the event object.  An event object carries the       *)
(* fields of a depth event (e, E, s, U, u and the arrays b, a of arrays    *)
(* of strings), those of a trade (b and a are numbers there), or neither.  *)
(***************************************************************************)
MaxArity == 3

\* Decimal::from_str on the strings that occur
Decimal_from_str(s) ==
    CASE s = "0" -> [ok |-> TRUE, value |-> 0]
      [] s = "1" -> [ok |-> TRUE, value |-> 1]
      [] OTHER   -> [ok |-> FALSE, value |-> 0]

\* deserialize_price_levels: every inner array must hold two strings that
\* are decimals; the first array that does not ends it with an error
RECURSIVE deserialize_price_levels(_)
deserialize_price_levels(raw) ==
    IF raw = <<>> THEN [ok |-> TRUE, levels |-> <<>>]
    ELSE LET pair == Head(raw) IN
         IF Len(pair) # 2 THEN [ok |-> FALSE, levels |-> <<>>]
         ELSE LET price == Decimal_from_str(pair[1])
                  quantity == Decimal_from_str(pair[2])
                  rest == deserialize_price_levels(Tail(raw))
              IN  IF price.ok /\ quantity.ok /\ rest.ok
                  THEN [ok |-> TRUE,
                        levels |-> <<[price |-> price.value,
                                      quantity |-> quantity.value]>>
                                   \o rest.levels]
                  ELSE [ok |-> FALSE, levels |-> <<>>]

NoUpdate ==
    [symbol |-> "None", event_time |-> 0, first_update_id |-> 0,
     final_update_id |-> 0, bids |-> <<>>, asks |-> <<>>]

\* serde on DepthUpdate: the object must have the depth fields and both
\* sides must pass deserialize_price_levels
DepthUpdate_deserialize(obj) ==
    IF obj.fields # "depth"
    THEN [ok |-> FALSE, event_type |-> "", update |-> NoUpdate]
    ELSE LET bids == deserialize_price_levels(obj.b)
             asks == deserialize_price_levels(obj.a)
         IN  IF bids.ok /\ asks.ok
             THEN [ok |-> TRUE, event_type |-> obj.e,
                   update |-> [symbol |-> obj.s, event_time |-> obj.E,
                               first_update_id |-> obj.U,
                               final_update_id |-> obj.u,
                               bids |-> bids.levels, asks |-> asks.levels]]
             ELSE [ok |-> FALSE, event_type |-> "", update |-> NoUpdate]

\* serde on Trade: the object must have the trade fields, price and
\* quantity must be decimals
Trade_deserialize(obj) ==
    IF obj.fields = "trade" /\ Decimal_from_str(obj.p).ok
    THEN [ok |-> TRUE, event_type |-> obj.e]
    ELSE [ok |-> FALSE, event_type |-> ""]

\* ParsedMessage and the Err of parse
Parsed(tag, update) == [tag |-> tag, update |-> update]

\* str::contains on the stream names that occur
StreamNames == {"btcusdt@depth@100ms", "btcusdt@trade", "btcusdt@ticker"}
contains(stream, word) ==
    CASE word = "depth" -> stream = "btcusdt@depth@100ms"
      [] word = "trade" -> stream = "btcusdt@trade"
      [] OTHER -> FALSE

\* parse_stream_data: the stream name picks the type, its error is returned
parse_stream_data(stream, data) ==
    IF contains(stream, "depth")
    THEN LET depth == DepthUpdate_deserialize(data) IN
         IF depth.ok THEN Parsed("DepthUpdate", depth.update)
         ELSE Parsed("Err", NoUpdate)
    ELSE IF contains(stream, "trade")
    THEN IF Trade_deserialize(data).ok THEN Parsed("Trade", NoUpdate)
         ELSE Parsed("Err", NoUpdate)
    ELSE Parsed("Unknown", NoUpdate)

\* ParsedMessage::parse: the wrapper first, then the direct attempts, whose
\* errors are dropped
parse(raw) ==
    IF raw.json /\ raw.stream # "none"
    THEN parse_stream_data(raw.stream, raw.data)
    ELSE LET depth == IF raw.json THEN DepthUpdate_deserialize(raw.data)
                      ELSE [ok |-> FALSE, event_type |-> "",
                            update |-> NoUpdate]
             trade == IF raw.json THEN Trade_deserialize(raw.data)
                      ELSE [ok |-> FALSE, event_type |-> ""]
         IN  IF depth.ok /\ depth.event_type = "depthUpdate"
             THEN Parsed("DepthUpdate", depth.update)
             ELSE IF trade.ok /\ trade.event_type = "trade"
             THEN Parsed("Trade", NoUpdate)
             ELSE Parsed("Unknown", NoUpdate)

(***************************************************************************)
(* Inputs: the snapshots and diffs a caller can hand to a book.            *)
(***************************************************************************)
NonNegative(levels) == \A i \in 1..Len(levels) : levels[i].quantity >= 0

\* the levels of one side of a message, at most n of them at distinct
\* prices; updates at distinct prices commute, so the ascending order
\* stands for every order
LevelSeqs(n) ==
    {q \in UNION {[1..k -> Level] : k \in 0..n} :
        \A i \in 1..(Len(q) - 1) : q[i].price < q[i + 1].price}

\* the two sides of one message: at most MaxLevels levels together
Sides == {s \in [bids : LevelSeqs(MaxLevels), asks : LevelSeqs(MaxLevels)] :
            Len(s.bids) + Len(s.asks) <= MaxLevels}

Snapshots == {[last_update_id |-> l, bids |-> s.bids, asks |-> s.asks] :
                l \in 0..MaxId, s \in Sides}

\* first_update_id <= final_update_id: a diff covers the ids U..u
DepthUpdates(sym) ==
    {[symbol |-> sym, event_time |-> t, first_update_id |-> r[1],
      final_update_id |-> r[2], bids |-> s.bids, asks |-> s.asks] :
        t \in EventTimes,
        r \in {x \in (1..MaxId) \X (1..MaxId) : x[1] <= x[2]},
        s \in Sides}

\* the diffs handed to the lone book
BookUpdates == DepthUpdates("BTCUSDT")

\* arrays of one to MaxArity strings
RECURSIVE StringArrays(_, _)
StringArrays(strings, n) ==
    IF n = 0 THEN {<<>>}
    ELSE {Append(a, s) : a \in StringArrays(strings, n - 1), s \in strings}

RawLevels(strings) ==
    UNION {StringArrays(strings, n) : n \in 1..MaxArity}

\* one side of an event: no level, or one
RawSides(strings) == {<<>>} \cup {<<l>> : l \in RawLevels(strings)}

EventTypes == {"depthUpdate", "trade"}

\* the event objects: depth events, trades, and an object that is neither
\* (the reply to a subscription)
DepthEvents(symbols, bidSides, askSides) ==
    {[fields |-> "depth", e |-> e, E |-> t, s |-> sym, U |-> r[1], u |-> r[2],
      b |-> b, a |-> a, p |-> ""] :
        e \in EventTypes, t \in EventTimes, sym \in symbols,
        r \in {x \in (1..MaxId) \X (1..MaxId) : x[1] <= x[2]},
        b \in bidSides, a \in askSides}

TradeEvents ==
    {[fields |-> "trade", e |-> e, E |-> t, s |-> "BTCUSDT", U |-> 0, u |-> 0,
      b |-> <<>>, a |-> <<>>, p |-> p] :
        e \in EventTypes, t \in EventTimes, p \in {"1", "x"}}

OtherEvent ==
    [fields |-> "other", e |-> "", E |-> 0, s |-> "", U |-> 0, u |-> 0,
     b |-> <<>>, a |-> <<>>, p |-> ""]

\* text frames: not JSON, a bare event object, or an event under a stream
\* name
FramesOf(events) ==
    {[json |-> FALSE, stream |-> "none", data |-> OtherEvent]}
    \cup {[json |-> TRUE, stream |-> st, data |-> ev] :
            st \in {"none"} \cup StreamNames,
            ev \in events \cup TradeEvents \cup {OtherEvent}}

\* the text frames of the stream: depth events of the configured symbols
\* that set or remove the bid at price 1, the same with a level of one
\* string, trades, other objects, and text that is not JSON
StreamFrames ==
    FramesOf(DepthEvents({"BTCUSDT", "ETHUSDT"},
                         {<<<<"1", "0">>>>, <<<<"1", "1">>>>, <<<<"1">>>>},
                         {<<>>}))

\* the frames handed to parse
ParseFrames ==
    FramesOf(DepthEvents({"BTCUSDT"}, RawSides({"1", "x"}),
                         RawSides({"1", "x"})))

(***************************************************************************)
(* State.                                                                  *)
(***************************************************************************)
(***************************************************************************)
(* u64 arithmetic.  A u64 is four 16-bit limbs, least significant first,   *)
(* so that a product is computed exactly and its wrap at 2^64 is seen.     *)
(***************************************************************************)
Limb == 256 * 256

U64(n) == <<n % Limb, n \div Limb, 0, 0>>

\* x * m for a small m: the value modulo 2^64 and whether it overflowed
u64_mul(x, m) ==
    LET p1 == x[1] * m
        p2 == x[2] * m + p1 \div Limb
        p3 == x[3] * m + p2 \div Limb
        p4 == x[4] * m + p3 \div Limb
    IN  [wrapped |-> <<p1 % Limb, p2 % Limb, p3 % Limb, p4 % Limb>>,
         overflow |-> p4 \div Limb # 0]

\* x.min(m) for an m below 2^16
u64_min(x, m) ==
    IF x[2] = 0 /\ x[3] = 0 /\ x[4] = 0 /\ x[1] <= m THEN x[1] ELSE m

(***************************************************************************)
(* WebSocketManager::run, the delay after the failure that made the        *)
(* counter `attempts`.                                                     *)
(***************************************************************************)
MAX_BACKOFF_MS == 60000
MaxExponent == 6
DefaultReconnectDelayMs == 1000

\* let base_delay = reconnect_delay_ms * 2u64.pow(reconnect_attempts.min(6))
base_delay(reconnect_delay, attempts) ==
    u64_mul(reconnect_delay,
            2 ^ (IF attempts < MaxExponent THEN attempts ELSE MaxExponent))

\* Duration::from_millis(base_delay.min(MAX_BACKOFF_MS))
backoff_delay(reconnect_delay, attempts) ==
    u64_min(base_delay(reconnect_delay, attempts).wrapped, MAX_BACKOFF_MS)

(***************************************************************************)
(* Publisher.  self is the handle (stream is Some), env is what the        *)
(* consumer and the encoder do: the socket path is absent, refuses or      *)
(* listens, the peer of the held connection still reads, to_vec succeeds.  *)
(***************************************************************************)
NoPublish ==
    [ret |-> "none", had_stream |-> FALSE, connect |-> "none", write |-> "none"]

\* Publisher::connect
publisher_connect(self, env) ==
    IF env.socket = "listening"
    THEN [self |-> [stream |-> TRUE], peer_open |-> TRUE, ret |-> "Ok"]
    ELSE [self |-> self, peer_open |-> env.peer_open, ret |-> "Err"]

\* Publisher::new: one connect, its failure only logged
Publisher_new(env) == publisher_connect([stream |-> FALSE], env)

\* a publish that keeps the handle when the write fails
publish_keeps_handle(self, env) ==
    IF ~env.to_vec_ok
    THEN [self |-> self, peer_open |-> env.peer_open,
          call |-> [ret |-> "Err", had_stream |-> self.stream,
                    connect |-> "none", write |-> "none"]]
    ELSE LET c == IF self.stream
                  THEN [self |-> self, peer_open |-> env.peer_open, ret |-> "Ok"]
                  ELSE publisher_connect(self, env)
             n == IF self.stream THEN "none" ELSE c.ret
         IN  IF c.ret = "Err"
             THEN [self |-> c.self, peer_open |-> c.peer_open,
                   call |-> [ret |-> "Ok", had_stream |-> self.stream,
                             connect |-> n, write |-> "none"]]
             ELSE [self |-> c.self, peer_open |-> c.peer_open,
                   call |-> [ret |-> "Ok", had_stream |-> self.stream,
                             connect |-> n,
                             write |-> IF c.peer_open THEN "ok" ELSE "failed"]]

\* Publisher::publish: what becomes of the handle and of the connection,
\* and what the call found, did and returned
publish(self, env) ==
    IF ~env.to_vec_ok
    THEN [self |-> self, peer_open |-> env.peer_open,
          call |-> [ret |-> "Err", had_stream |-> self.stream,
                    connect |-> "none", write |-> "none"]]
    ELSE LET c == IF self.stream
                  THEN [self |-> self, peer_open |-> env.peer_open, ret |-> "Ok"]
                  ELSE publisher_connect(self, env)
             n == IF self.stream THEN "none" ELSE c.ret
         IN  IF c.ret = "Err"
             THEN [self |-> c.self, peer_open |-> c.peer_open,
                   call |-> [ret |-> "Ok", had_stream |-> self.stream,
                             connect |-> n, write |-> "none"]]
             ELSE IF c.peer_open
             THEN [self |-> c.self, peer_open |-> TRUE,
                   call |-> [ret |-> "Ok", had_stream |-> self.stream,
                             connect |-> n, write |-> "ok"]]
             ELSE [self |-> [stream |-> FALSE], peer_open |-> FALSE,
                   call |-> [ret |-> "Ok", had_stream |-> self.stream,
                             connect |-> n, write |-> "failed"]]

VARIABLES
    book,       \* one OrderBook driven directly by its caller
    call,       \* the last call made on book: its name, final id and result
    ref,        \* reference ladders: the same snapshots and diffs, no trim
    removed,    \* a diff since the last snapshot carried a zero quantity
    \* the service (main.rs, websocket/manager.rs)
    depth_levels,        \* Config.depth_levels
    manager,             \* AppState.orderbook_manager
    pc,                  \* where WebSocketManager::run stands
    reconnect_attempts,  \* WebSocketManager.reconnect_attempts
    last_successful_connection, \* is it Some(_)
    stream,              \* WebSocketClient.stream is Some(_)
    fetch_i,             \* fetch_snapshots: index of the next symbol
    inbox,               \* frames on the stream that recv() can still read
    published,           \* the last state handed to Publisher::publish
    loggers,             \* status-logger tasks spawned and running
    \* the exchange
    exId,                \* per symbol: the last update id it has used
    emitted,             \* per symbol: the diffs <<U, u>> it has emitted
    \* history of the books held by the manager
    fresh,               \* per symbol: book installed on the connection in use
    snapL,               \* per symbol: lastUpdateId of the book's snapshot
    applied,             \* per symbol: diffs applied since that snapshot
    \* run's backoff
    reconnect_delay_ms,  \* Config.reconnect_delay_ms, a u64 in 16-bit limbs
    delay,               \* the milliseconds run sleeps after a failure
    \* the receive loop's clock, in seconds
    last_message,        \* last_message.elapsed()
    waiting,             \* time spent in the pending timeout(recv_timeout, recv())
    silent,              \* time since the last inbound frame of any kind
    pings,               \* outbound pings sent since that frame
    \* the publisher (publisher/mod.rs) and its consumer
    pub_stream,          \* Publisher.stream is Some(_)
    socket,              \* the consumer's socket path: absent, refusing, listening
    peer_open,           \* the consumer still reads the connection held
    to_vec_ok,           \* rmp_serde::to_vec yields Ok for the states published
    pub_call,            \* the last publish: what it found, did and returned
    \* the lock on AppState.orderbook_manager (main.rs: Arc<RwLock<_>>)
    writer,              \* process_message holds the write guard
    readers,             \* status loggers that hold a read guard
    pending,             \* the depth diff process_message is working on
    \* Publisher.stream, a Mutex<Option<UnixStream>>, under concurrent calls
    mutex,               \* the publish call that holds the guard, 0 if none
    stored,              \* the number of the connection last stored in it
    task,                \* per publish call in flight: where it stands
    conns,               \* connections the calls have opened so far
    wire                 \* per connection: the chunks written to it

bookVars == <<book, call>>
conVars == <<writer, readers, pending, mutex, stored, task, conns, wire>>
backoffVars == <<reconnect_delay_ms, delay>>
timeVars == <<last_message, waiting, silent, pings>>
pubVars == <<pub_stream, socket, peer_open, to_vec_ok, pub_call>>
netVars == <<backoffVars, timeVars, pubVars>>
refVars == <<ref, removed>>
svcVars == <<depth_levels, manager, pc, reconnect_attempts,
             last_successful_connection, stream, fetch_i, inbox, published,
             loggers, exId, emitted, fresh, snapL, applied>>
vars == <<writer, readers, pending, mutex, stored, task, conns, wire,
          book, call, ref, removed, depth_levels, manager, pc,
          reconnect_attempts, last_successful_connection, stream, fetch_i,
          inbox, published, loggers, exId, emitted, fresh, snapL, applied,
          reconnect_delay_ms, delay, last_message, waiting, silent, pings,
          pub_stream, socket, peer_open, to_vec_ok, pub_call>>

\* nobody holds the lock of the manager
LockIdle == writer = FALSE /\ readers = 0 /\ pending = NoUpdate

\* the callers of publish, and one that is not inside a call
Tasks == 1..MaxTasks
IdleTask(calls) == [pc |-> "idle", calls |-> calls, conn |-> 0]

\* no publish call is in flight; the connection of Publisher::new is
\* number 0, those the calls open are numbered from 1
MutexIdle ==
    /\ mutex = 0
    /\ stored = 0
    /\ conns = 0
    /\ task = [t \in Tasks |-> IdleTask(0)]
    /\ wire = [c \in 0..MaxConns |-> <<>>]

(***************************************************************************)
(* The service: main builds the shared state, WebSocketManager::run drives *)
(* it, the exchange emits diffs.                                           *)
(***************************************************************************)
\* Config.symbols, SYMBOLS unset
Symbols == <<"BTCUSDT", "ETHUSDT">>
SymbolSet == {Symbols[i] : i \in 1..Len(Symbols)}

\* DEPTH_LEVELS: unset, or set to 5
DefaultDepthLevels == 20
DepthLevelChoices == {5, DefaultDepthLevels}

NoState ==
    [symbol |-> "None", timestamp |-> 0, last_update_id |-> 0,
     bids |-> EmptyMap, asks |-> EmptyMap]

\* what the exchange sends here: a snapshot holds the bid at price 1, a diff
\* sets or removes it
DiffSides ==
    {[bids |-> <<[price |-> 1, quantity |-> q]>>, asks |-> <<>>] : q \in {0, 1}}
SnapshotSides ==
    {[bids |-> <<[price |-> 1, quantity |-> 1]>>, asks |-> <<>>]}

\* connect_and_process: the receive loop's two timeouts, in seconds; the
\* clock of the model advances by their difference
keepalive_timeout == 30
recv_timeout == 45
Quantum == recv_timeout - keepalive_timeout

\* RECONNECT_DELAY_MS unset
BackoffIdle ==
    /\ reconnect_delay_ms = U64(DefaultReconnectDelayMs)
    /\ delay = 0

\* no receive loop runs
TimersIdle == last_message = 0 /\ waiting = 0 /\ silent = 0 /\ pings = 0

\* the consumer listens before the service starts and reads all it is
\* sent, every state can be encoded: Publisher::new connects
PublisherUp ==
    /\ socket = "listening"
    /\ to_vec_ok = TRUE
    /\ pub_stream = TRUE
    /\ peer_open = TRUE
    /\ pub_call = NoPublish
    /\ MutexIdle

\* main, up to ws_manager.run(), DEPTH_LEVELS unset
SvcBoot ==
    /\ depth_levels = DefaultDepthLevels
    /\ manager = OrderBookManager_new
    /\ pc = "run"
    /\ reconnect_attempts = 0
    /\ last_successful_connection = FALSE
    /\ stream = FALSE
    /\ fetch_i = 0
    /\ inbox = <<>>
    /\ published = NoState
    /\ loggers = 0
    /\ exId = [s \in SymbolSet |-> 0]
    /\ emitted = [s \in SymbolSet |-> {}]
    /\ fresh = [s \in SymbolSet |-> FALSE]
    /\ snapL = [s \in SymbolSet |-> 0]
    /\ applied = [s \in SymbolSet |-> {}]
    /\ TimersIdle

SvcStart == SvcBoot /\ BackoffIdle /\ PublisherUp

\* the supervisor's variables where WebSocketManager::run is not started
SvcQuiet ==
    /\ pc = "off"
    /\ reconnect_attempts = 0
    /\ last_successful_connection = FALSE
    /\ stream = FALSE
    /\ fetch_i = 0
    /\ inbox = <<>>
    /\ published = NoState
    /\ loggers = 0
    /\ exId = [s \in SymbolSet |-> 0]
    /\ emitted = [s \in SymbolSet |-> {}]
    /\ fresh = [s \in SymbolSet |-> FALSE]
    /\ snapL = [s \in SymbolSet |-> 0]
    /\ applied = [s \in SymbolSet |-> {}]
    /\ BackoffIdle /\ TimersIdle /\ PublisherUp

\* the service variables of a specification that runs no service
SvcIdle ==
    /\ depth_levels = DefaultDepthLevels
    /\ manager = OrderBookManager_new
    /\ SvcQuiet

exVars == <<exId, emitted>>
histVars == <<fresh, snapL, applied>>

\* an Err arm that gives up at the cap: run returns the error
RunErr_gives_up(attempts) ==
    /\ reconnect_attempts' = attempts + 1
    /\ delay' = 0
    /\ pc' = IF attempts + 1 >= MaxAttempts THEN "returned" ELSE "backoff"

\* run, the Err arm: count the failure, compute the delay, sleep.  The
\* product is a u64: where it overflows, a build with overflow checks
\* panics and a build without them goes on with the wrapped value.
RunErr(attempts) ==
    /\ reconnect_attempts' = attempts + 1
    /\ \/ /\ pc' = "backoff"
          /\ delay' = backoff_delay(reconnect_delay_ms, attempts + 1)
       \/ /\ base_delay(reconnect_delay_ms, attempts + 1).overflow
          /\ pc' = "panic"
          /\ delay' = 0

\* run, top of the loop: the counter is reset when the last successful
\* connection is older than the cooldown (any time may have passed)
AfterCooldown(elapsed) ==
    IF last_successful_connection /\ elapsed /\ reconnect_attempts > 0
    THEN 0 ELSE reconnect_attempts

\* a connect that goes straight to the receive loop when every symbol
\* already has a book
ConnectOk_without_resync ==
    /\ pc = "run"
    /\ stream' = TRUE
    /\ inbox' = <<>>
    /\ last_successful_connection' = TRUE
    /\ reconnect_attempts' = 0
    /\ IF DOMAIN manager.books = SymbolSet
       THEN pc' = "stream" /\ fetch_i' = 0
       ELSE pc' = "fetch" /\ fetch_i' = 1
    /\ fresh' = [s \in SymbolSet |-> FALSE]
    /\ UNCHANGED <<conVars, bookVars, refVars, netVars, depth_levels, manager,
                   published, loggers, exVars, snapL, applied>>

\* connect_and_process: client.connect() succeeds
ConnectOk ==
    /\ pc = "run"
    /\ stream' = TRUE
    /\ inbox' = <<>>
    /\ last_successful_connection' = TRUE
    /\ reconnect_attempts' = 0
    /\ pc' = "fetch"
    /\ fetch_i' = 1
    /\ fresh' = [s \in SymbolSet |-> FALSE]
    /\ UNCHANGED <<conVars, bookVars, refVars, netVars, depth_levels, manager,
                   published, loggers, exVars, snapL, applied>>

\* connect_and_process: client.connect() fails; stream keeps what it held
ConnectErrUpTo(cap) ==
    /\ pc = "run"
    /\ \E elapsed \in BOOLEAN :
        /\ AfterCooldown(elapsed) < cap
        /\ RunErr(AfterCooldown(elapsed))
    /\ UNCHANGED <<conVars, bookVars, refVars, reconnect_delay_ms, timeVars, pubVars,
                   depth_levels, manager, last_successful_connection, stream,
                   fetch_i, inbox, published, loggers, exVars, histVars>>

ConnectErr == ConnectErrUpTo(MaxAttempts)

\* the receive loop starts, or reads a text frame: last_message is now, a
\* new timeout(recv_timeout, recv()) begins
TimersStart ==
    /\ last_message' = 0
    /\ waiting' = 0
    /\ silent' = 0
    /\ pings' = 0

\* fetch_snapshots, one turn of the loop: the GET succeeds and the book is
\* installed; after the last symbol the status logger is spawned and the
\* receive loop starts
FetchOk ==
    /\ pc = "fetch"
    /\ LET symbol == Symbols[fetch_i] IN
       \E l \in 0..exId[symbol], s \in SnapshotSides :
        /\ Len(s.bids) <= depth_levels /\ Len(s.asks) <= depth_levels
        /\ manager' = init_book(manager, symbol,
                [last_update_id |-> l, bids |-> s.bids, asks |-> s.asks])
        /\ fresh' = [fresh EXCEPT ![symbol] = TRUE]
        /\ snapL' = [snapL EXCEPT ![symbol] = l]
        /\ applied' = [applied EXCEPT ![symbol] = {}]
    /\ IF fetch_i < Len(Symbols)
       THEN /\ fetch_i' = fetch_i + 1 /\ pc' = "fetch" /\ loggers' = loggers
            /\ UNCHANGED <<conVars, timeVars>>
       ELSE /\ loggers < MaxLoggers
            /\ fetch_i' = 0 /\ pc' = "stream" /\ loggers' = loggers + 1
            /\ TimersStart
    /\ UNCHANGED <<conVars, bookVars, refVars, backoffVars, pubVars, depth_levels,
                   reconnect_attempts, last_successful_connection, stream,
                   inbox, published, exVars>>

\* a failed snapshot fetch that is only logged: the receive loop starts
\* with the books as they are
FetchErr_goes_on ==
    /\ pc = "fetch"
    /\ loggers < MaxLoggers
    /\ fetch_i' = 0 /\ pc' = "stream" /\ loggers' = loggers + 1
    /\ TimersStart
    /\ UNCHANGED <<conVars, bookVars, refVars, backoffVars, pubVars, depth_levels,
                   manager, reconnect_attempts, last_successful_connection,
                   stream, inbox, published, exVars, histVars>>

\* fetch_snapshots: the GET or its JSON fails; the error leaves
\* connect_and_process
FetchErr ==
    /\ pc = "fetch"
    /\ RunErr(reconnect_attempts)
    /\ fetch_i' = 0
    /\ inbox' = <<>>
    /\ fresh' = [s \in SymbolSet |-> FALSE]
    /\ UNCHANGED <<conVars, bookVars, refVars, reconnect_delay_ms, timeVars, pubVars,
                   depth_levels, manager, last_successful_connection, stream,
                   published, loggers, exVars, snapL, applied>>

\* a process_message that publishes the book of the symbol whether or not
\* the diff was applied
ProcessUpdate_always_publishes(update, buffered) ==
    LET r == manager_apply_update(manager, update)
        publishes == update.symbol \in DOMAIN r.manager.books
        p == publish([stream |-> pub_stream],
                     [socket |-> socket, peer_open |-> peer_open,
                      to_vec_ok |-> to_vec_ok])
    IN
    /\ manager' = r.manager
    /\ published' = IF publishes
                    THEN get_state(r.manager, update.symbol)
                    ELSE published
    /\ pub_stream' = IF publishes THEN p.self.stream ELSE pub_stream
    /\ peer_open' = IF publishes THEN p.peer_open ELSE peer_open
    /\ pub_call' = IF publishes THEN p.call ELSE pub_call
    /\ applied' = IF r.ret
                  THEN [applied EXCEPT ![update.symbol] =
                            @ \cup {[final |-> update.final_update_id,
                                     buffered |-> buffered]}]
                  ELSE applied

\* process_message on a depth diff: the diff is applied and, if it was,
\* the book's state is published
ProcessUpdate(update, buffered) ==
    LET r == manager_apply_update(manager, update)
        publishes == r.ret /\ update.symbol \in DOMAIN r.manager.books
        p == publish([stream |-> pub_stream],
                     [socket |-> socket, peer_open |-> peer_open,
                      to_vec_ok |-> to_vec_ok])
    IN
    /\ manager' = r.manager
    /\ published' = IF publishes
                    THEN get_state(r.manager, update.symbol)
                    ELSE published
    /\ pub_stream' = IF publishes THEN p.self.stream ELSE pub_stream
    /\ peer_open' = IF publishes THEN p.peer_open ELSE peer_open
    /\ pub_call' = IF publishes THEN p.call ELSE pub_call
    /\ applied' = IF r.ret
                  THEN [applied EXCEPT ![update.symbol] =
                            @ \cup {[final |-> update.final_update_id,
                                     buffered |-> buffered]}]
                  ELSE applied

\* the diff at the head of the stream
ProcessDepthUpdate(update) == ProcessUpdate(update, Head(inbox).buffered)

\* a receive loop that returns the error of process_message: the
\* connection is torn down like on a stream error
RecvFrame_gives_up ==
    /\ pc = "stream"
    /\ inbox = <<>>
    /\ \E raw \in StreamFrames :
       LET parsed == parse(raw)
           accepted == /\ parsed.tag = "DepthUpdate"
                       /\ manager_apply_update(manager, parsed.update).ret
       IN
       /\ call' = [op |-> "process_message", tag |-> parsed.tag,
                   symbol |-> parsed.update.symbol,
                   final |-> parsed.update.final_update_id,
                   ret |-> accepted]
       /\ IF parsed.tag = "DepthUpdate"
          THEN ProcessUpdate(parsed.update, FALSE)
          ELSE UNCHANGED <<conVars, manager, published, pub_stream, peer_open,
                           pub_call, applied>>
       /\ IF parsed.tag = "Err"
          THEN /\ stream' = FALSE
               /\ RunErr(reconnect_attempts)
          ELSE UNCHANGED <<conVars, stream, pc, reconnect_attempts, delay>>
    /\ TimersStart
    /\ UNCHANGED <<conVars, book, refVars, reconnect_delay_ms, socket, to_vec_ok,
                   depth_levels, last_successful_connection, fetch_i, inbox,
                   loggers, exVars, fresh, snapL>>

\* the receive loop: recv() yields a text frame, process_message parses it
\* and handles what parse returns; an error of process_message is logged
\* and the loop goes on
RecvFrame ==
    /\ pc = "stream"
    /\ inbox = <<>>
    /\ \E raw \in StreamFrames :
       LET parsed == parse(raw)
           accepted == /\ parsed.tag = "DepthUpdate"
                       /\ manager_apply_update(manager, parsed.update).ret
       IN
       /\ call' = [op |-> "process_message", tag |-> parsed.tag,
                   symbol |-> parsed.update.symbol,
                   final |-> parsed.update.final_update_id,
                   ret |-> accepted]
       /\ IF parsed.tag = "DepthUpdate"
          THEN ProcessUpdate(parsed.update, FALSE)
          ELSE UNCHANGED <<conVars, manager, published, pub_stream, peer_open,
                           pub_call, applied>>
    /\ TimersStart
    /\ UNCHANGED <<conVars, book, refVars, backoffVars, socket, to_vec_ok,
                   depth_levels, pc, reconnect_attempts,
                   last_successful_connection, stream, fetch_i, inbox,
                   loggers, exVars, fresh, snapL>>

\* the receive loop: recv() yields a text frame that is a depth diff; an
\* error of process_message is logged and the loop goes on
RecvText ==
    /\ pc = "stream"
    /\ inbox # <<>>
    /\ ProcessDepthUpdate(Head(inbox).data)
    /\ inbox' = Tail(inbox)
    /\ TimersStart
    /\ UNCHANGED <<conVars, bookVars, refVars, backoffVars, socket, to_vec_ok,
                   depth_levels, pc, reconnect_attempts,
                   last_successful_connection, stream, fetch_i, loggers,
                   exVars, fresh, snapL>>

\* the receive loop: recv() yields a text frame that is a trade, an
\* unknown message or not JSON
RecvOther ==
    /\ pc = "stream"
    /\ inbox = <<>>
    /\ TimersStart
    /\ UNCHANGED <<conVars, bookVars, refVars, backoffVars, pubVars, svcVars>>

\* the receive loop: recv() yields None, a ping or pong came in; a
\* keepalive ping goes out if the last text frame is older than
\* keepalive_timeout, and its failure is only logged
RecvNone ==
    /\ pc = "stream"
    /\ inbox = <<>>
    /\ silent' = 0
    /\ waiting' = 0
    /\ IF last_message > keepalive_timeout
       THEN \E sent \in BOOLEAN : pings' = IF sent THEN 1 ELSE 0
       ELSE pings' = 0
    /\ UNCHANGED <<conVars, bookVars, refVars, backoffVars, pubVars, svcVars,
                   last_message>>

\* process_message, up to the write guard: the frame is a depth diff and
\* orderbook_manager.write() is granted, which it is when no guard is out
FrameLocks ==
    /\ pc = "stream"
    /\ inbox = <<>>
    /\ ~writer /\ readers = 0
    /\ \E raw \in StreamFrames :
        /\ parse(raw).tag = "DepthUpdate"
        /\ pending' = parse(raw).update
    /\ writer' = TRUE
    /\ pc' = "locked"
    /\ TimersStart
    /\ UNCHANGED <<mutex, stored, task, conns, wire, readers, bookVars,
                   refVars, backoffVars, pubVars, depth_levels, manager,
                   reconnect_attempts, last_successful_connection, stream,
                   fetch_i, inbox, published, loggers, exVars, histVars>>

\* a process_message whose guard lives to the end of the match arm
LockedApply_keeps_guard ==
    /\ pc = "locked"
    /\ \E r \in {manager_apply_update(manager, pending)} :
        /\ manager' = r.manager
        /\ IF r.ret /\ pending.symbol \in DOMAIN r.manager.books
           THEN /\ published' = get_state(r.manager, pending.symbol)
                /\ writer' = TRUE
                /\ pc' = "publish"
           ELSE /\ published' = published
                /\ writer' = FALSE
                /\ pc' = "stream"
        /\ applied' = IF r.ret
                      THEN [applied EXCEPT ![pending.symbol] =
                                @ \cup {[final |-> pending.final_update_id,
                                         buffered |-> FALSE]}]
                      ELSE applied
    /\ pending' = NoUpdate
    /\ UNCHANGED <<mutex, stored, task, conns, wire, readers, bookVars,
                   refVars, netVars, depth_levels, reconnect_attempts,
                   last_successful_connection, stream, fetch_i, inbox,
                   loggers, exVars, fresh, snapL>>

\* process_message under the write guard: apply_update, and where it
\* returns true get_state and drop(manager); no await lies between.  Where
\* it returns false the guard goes at the end of the arm.
LockedApply ==
    /\ pc = "locked"
    /\ \E r \in {manager_apply_update(manager, pending)} :
        /\ manager' = r.manager
        /\ IF r.ret /\ pending.symbol \in DOMAIN r.manager.books
           THEN /\ published' = get_state(r.manager, pending.symbol)
                /\ writer' = FALSE
                /\ pc' = "publish"
           ELSE /\ published' = published
                /\ writer' = FALSE
                /\ pc' = "stream"
        /\ applied' = IF r.ret
                      THEN [applied EXCEPT ![pending.symbol] =
                                @ \cup {[final |-> pending.final_update_id,
                                         buffered |-> FALSE]}]
                      ELSE applied
    /\ pending' = NoUpdate
    /\ UNCHANGED <<mutex, stored, task, conns, wire, readers, bookVars,
                   refVars, netVars, depth_levels, reconnect_attempts,
                   last_successful_connection, stream, fetch_i, inbox,
                   loggers, exVars, fresh, snapL>>

\* process_message, publisher.publish(&state).await: the I/O of the
\* publisher; its error is logged by the receive loop
PublishIO ==
    /\ pc = "publish"
    /\ \E p \in {publish([stream |-> pub_stream],
                          [socket |-> socket, peer_open |-> peer_open,
                           to_vec_ok |-> to_vec_ok])} :
        /\ pub_stream' = p.self.stream
        /\ peer_open' = p.peer_open
        /\ pub_call' = p.call
    /\ pc' = "stream"
    /\ UNCHANGED <<conVars, bookVars, refVars, backoffVars, timeVars, socket,
                   to_vec_ok, depth_levels, manager, reconnect_attempts,
                   last_successful_connection, stream, fetch_i, inbox,
                   published, loggers, exVars, histVars>>

\* a status logger's 30 s tick: orderbook_manager.read() is granted, which
\* it is when the write guard is not out
LoggerReads ==
    /\ readers < loggers
    /\ ~writer
    /\ readers' = readers + 1
    /\ UNCHANGED <<writer, pending, mutex, stored, task, conns, wire,
                   bookVars, refVars, netVars, svcVars>>

\* the logger has logged every book: its read guard goes
LoggerDone ==
    /\ readers > 0
    /\ readers' = readers - 1
    /\ UNCHANGED <<writer, pending, mutex, stored, task, conns, wire,
                   bookVars, refVars, netVars, svcVars>>

\* publish, up to the guard it asks for: to_vec and the length prefix.  The
\* frame of the call is named by its caller and the caller's call count.
PubStart(t) ==
    /\ task[t].pc = "idle"
    /\ task[t].calls < MaxCalls
    /\ task' = [task EXCEPT ![t] =
                  [pc |-> IF to_vec_ok THEN "lock" ELSE "idle",
                   calls |-> @.calls + 1, conn |-> 0]]
    /\ UNCHANGED <<writer, readers, pending, mutex, stored, conns, wire,
                   bookVars, refVars, netVars, svcVars>>

\* a publish that reads the handle and writes with no guard
PubLock_no_guard(t) ==
    /\ task[t].pc = "lock"
    /\ mutex' = mutex
    /\ IF pub_stream
       THEN task' = [task EXCEPT ![t].pc = "write_len"]
       ELSE task' = [task EXCEPT ![t].pc = "connect"]
    /\ UNCHANGED <<writer, readers, pending, stored, conns, wire, bookVars,
                   refVars, netVars, svcVars>>

\* publish, self.stream.lock(): the guard is granted; a handle that is
\* None makes publish drop it and connect
PubLock(t) ==
    /\ task[t].pc = "lock"
    /\ mutex = 0
    /\ IF pub_stream
       THEN /\ mutex' = t
            /\ task' = [task EXCEPT ![t].pc = "write_len"]
       ELSE /\ mutex' = 0
            /\ task' = [task EXCEPT ![t].pc = "connect"]
    /\ UNCHANGED <<writer, readers, pending, stored, conns, wire, bookVars,
                   refVars, netVars, svcVars>>

\* publish, self.connect(): the path is missing or UnixStream::connect
\* fails and publish returns Ok, or the consumer accepts a new connection
PubConnect(t) ==
    /\ task[t].pc = "connect"
    /\ \/ /\ task' = [task EXCEPT ![t] = IdleTask(@.calls)]
          /\ conns' = conns
       \/ /\ conns < MaxConns
          /\ conns' = conns + 1
          /\ task' = [task EXCEPT ![t].pc = "store", ![t].conn = conns + 1]
    /\ UNCHANGED <<writer, readers, pending, mutex, stored, wire, bookVars,
                   refVars, netVars, svcVars>>

\* connect, its end: the guard is granted, the new connection replaces
\* what the handle held, the guard goes
PubStore(t) ==
    /\ task[t].pc = "store"
    /\ mutex = 0
    /\ stored' = task[t].conn
    /\ pub_stream' = TRUE
    /\ task' = [task EXCEPT ![t].pc = "relock"]
    /\ UNCHANGED <<writer, readers, pending, mutex, conns, wire, bookVars,
                   refVars, backoffVars, timeVars, socket, peer_open,
                   to_vec_ok, pub_call, svcVars>>

\* publish after connect: the guard is granted again; the handle may be
\* None by now, then nothing is written
PubRelock(t) ==
    /\ task[t].pc = "relock"
    /\ mutex = 0
    /\ IF pub_stream
       THEN /\ mutex' = t
            /\ task' = [task EXCEPT ![t].pc = "write_len"]
       ELSE /\ mutex' = 0
            /\ task' = [task EXCEPT ![t] = IdleTask(@.calls)]
    /\ UNCHANGED <<writer, readers, pending, stored, conns, wire, bookVars,
                   refVars, netVars, svcVars>>

\* publish, stream.write_all(&message): the bytes go to the connection in
\* the handle, the four of the length first, then the payload; the write
\* may fail before either, then the handle becomes None.  The guard goes
\* when publish returns.
PubWrite(t) ==
    /\ task[t].pc \in {"write_len", "write_payload"}
    /\ \/ /\ wire' = [wire EXCEPT ![stored] =
                         Append(@, [frame |-> <<t, task[t].calls>>,
                                    part |-> IF task[t].pc = "write_len"
                                             THEN "len" ELSE "payload"])]
          /\ IF task[t].pc = "write_len"
             THEN /\ task' = [task EXCEPT ![t].pc = "write_payload"]
                  /\ mutex' = mutex
             ELSE /\ task' = [task EXCEPT ![t] = IdleTask(@.calls)]
                  /\ mutex' = 0
          /\ pub_stream' = pub_stream
       \/ /\ wire' = wire
          /\ task' = [task EXCEPT ![t] = IdleTask(@.calls)]
          /\ mutex' = 0
          /\ pub_stream' = FALSE
    /\ UNCHANGED <<writer, readers, pending, stored, conns, bookVars, refVars,
                   backoffVars, timeVars, socket, peer_open, to_vec_ok,
                   pub_call, svcVars>>

\* the payloads of the control frames that come in
Payloads == {<<>>, <<7>>}

\* a recv that answers a ping with an empty pong
RecvControl_empty_pong(frame) ==
    /\ pc = "stream"
    /\ inbox = <<>>
    /\ silent' = 0
    /\ waiting' = 0
    /\ \E pong_ok \in BOOLEAN, ping_ok \in BOOLEAN :
       LET pong == IF frame.type = "Ping"
                   THEN <<[type |-> "Pong", data |-> <<>>, ok |-> pong_ok]>>
                   ELSE <<>>
           keepalive == IF last_message > keepalive_timeout
                        THEN <<[type |-> "Ping", data |-> <<>>,
                                ok |-> ping_ok]>>
                        ELSE <<>>
       IN  /\ call' = [op |-> "recv", frame |-> frame,
                       sends |-> pong \o keepalive]
           /\ pings' = IF last_message > keepalive_timeout /\ ping_ok
                       THEN 1 ELSE 0
    /\ UNCHANGED <<conVars, book, refVars, backoffVars, pubVars, svcVars,
                   last_message>>

\* the receive loop: recv() reads a ping or a pong and yields None.  A ping
\* is answered by stream.send(Message::Pong(data)), whose result is
\* dropped; then, as for every None, a keepalive ping goes out if the last
\* text frame is older than keepalive_timeout.  Each send is kept with
\* its result: ok is false where the transport failed and nothing went out.
RecvControl(frame) ==
    /\ pc = "stream"
    /\ inbox = <<>>
    /\ silent' = 0
    /\ waiting' = 0
    /\ \E pong_ok \in BOOLEAN, ping_ok \in BOOLEAN :
       LET pong == IF frame.type = "Ping"
                   THEN <<[type |-> "Pong", data |-> frame.data,
                           ok |-> pong_ok]>>
                   ELSE <<>>
           keepalive == IF last_message > keepalive_timeout
                        THEN <<[type |-> "Ping", data |-> <<>>,
                                ok |-> ping_ok]>>
                        ELSE <<>>
       IN  /\ call' = [op |-> "recv", frame |-> frame,
                       sends |-> pong \o keepalive]
           /\ pings' = IF last_message > keepalive_timeout /\ ping_ok
                       THEN 1 ELSE 0
    /\ UNCHANGED <<conVars, book, refVars, backoffVars, pubVars, svcVars,
                   last_message>>

RecvPing == \E data \in Payloads : RecvControl([type |-> "Ping", data |-> data])

RecvPong == \E data \in Payloads : RecvControl([type |-> "Pong", data |-> data])

\* a stream error that throws the books away
RecvErr_drops_books ==
    /\ pc = "stream"
    /\ stream' = FALSE
    /\ RunErr(reconnect_attempts)
    /\ inbox' = <<>>
    /\ fresh' = [s \in SymbolSet |-> FALSE]
    /\ TimersStart
    /\ manager' = [manager EXCEPT !.books = EmptyMap]
    /\ UNCHANGED <<conVars, bookVars, refVars, reconnect_delay_ms, pubVars,
                   depth_levels, last_successful_connection, fetch_i,
                   published, loggers, exVars, snapL, applied>>

\* the receive loop: recv() yields a close frame, a transport error or the
\* end of the stream
RecvErr ==
    /\ pc = "stream"
    /\ stream' = FALSE
    /\ RunErr(reconnect_attempts)
    /\ inbox' = <<>>
    /\ fresh' = [s \in SymbolSet |-> FALSE]
    /\ TimersStart
    /\ UNCHANGED <<conVars, bookVars, refVars, reconnect_delay_ms, pubVars,
                   depth_levels, manager, last_successful_connection, fetch_i,
                   published, loggers, exVars, snapL, applied>>

\* the receive loop: recv_timeout passes with no frame; a ping goes out
\* and the loop goes on, or the ping fails and connect_and_process
\* returns ConnectionTimeout
RecvTimeout ==
    /\ pc = "stream"
    /\ waiting >= recv_timeout
    /\ \/ /\ waiting' = 0
          /\ pings' = IF pings < MaxPings THEN pings + 1 ELSE pings
          /\ UNCHANGED <<conVars, backoffVars, svcVars, last_message, silent>>
       \/ /\ RunErr(reconnect_attempts)
          /\ inbox' = <<>>
          /\ fresh' = [s \in SymbolSet |-> FALSE]
          /\ TimersStart
          /\ UNCHANGED <<conVars, reconnect_delay_ms, depth_levels, manager,
                         last_successful_connection, stream, fetch_i,
                         published, loggers, exVars, snapL, applied>>
    /\ UNCHANGED <<conVars, bookVars, refVars, pubVars>>

\* Quantum seconds pass while recv() is pending
Later(elapsed) ==
    IF elapsed + Quantum > MaxSilentTicks * Quantum
    THEN MaxSilentTicks * Quantum ELSE elapsed + Quantum

Tick ==
    /\ pc = "stream"
    /\ inbox = <<>>
    /\ waiting < recv_timeout
    /\ last_message' = Later(last_message)
    /\ waiting' = waiting + Quantum
    /\ silent' = Later(silent)
    /\ UNCHANGED <<conVars, bookVars, refVars, backoffVars, pubVars, svcVars, pings>>

\* run: sleep(delay) is over, next turn of the loop
BackoffDone ==
    /\ pc = "backoff"
    /\ pc' = "run"
    /\ delay' = 0
    /\ UNCHANGED <<conVars, bookVars, refVars, reconnect_delay_ms, timeVars, pubVars,
                   depth_levels, manager, reconnect_attempts,
                   last_successful_connection, stream, fetch_i, inbox,
                   published, loggers, exVars, histVars>>

\* the consumer goes away: its socket path is removed or left behind with
\* no listener, and the connection it had accepted is closed
ConsumerStops ==
    /\ socket = "listening"
    /\ socket' \in {"absent", "refusing"}
    /\ peer_open' = FALSE
    /\ UNCHANGED <<conVars, bookVars, refVars, backoffVars, timeVars, svcVars,
                   pub_stream, to_vec_ok, pub_call>>

\* the consumer comes back and listens on the path
ConsumerStarts ==
    /\ socket # "listening"
    /\ socket' = "listening"
    /\ UNCHANGED <<conVars, bookVars, refVars, backoffVars, timeVars, svcVars,
                   pub_stream, peer_open, to_vec_ok, pub_call>>

\* the connection is read: between connect() and the error that ends
\* connect_and_process
Listening == pc \in {"fetch", "stream"}

\* the exchange emits the diff [exId + 1, exId + n] of a symbol
ExchangeDiff(symbol, n, s) ==
    [symbol |-> symbol, event_time |-> 1,
     first_update_id |-> exId[symbol] + 1,
     final_update_id |-> exId[symbol] + n,
     bids |-> s.bids, asks |-> s.asks]

RECURSIVE SumIds(_, _)
SumIds(ids, S) ==
    IF S = {} THEN 0
    ELSE LET s == CHOOSE x \in S : TRUE IN ids[s] + SumIds(ids, S \ {s})

ExchangeEmits(symbol, n) ==
    /\ SumIds(exId, SymbolSet) + n <= MaxUpdates
    /\ exId' = [exId EXCEPT ![symbol] = @ + n]
    /\ emitted' = [emitted EXCEPT ![symbol] =
                      @ \cup {<<exId[symbol] + 1, exId[symbol] + n>>}]

\* the diff reaches the stream and waits there for recv()
EmitDelivered ==
    /\ pc # "off"
    /\ Listening
    /\ Len(inbox) < MaxInbox
    /\ \E symbol \in SymbolSet, n \in 1..MaxUpdates, s \in DiffSides :
        /\ ExchangeEmits(symbol, n)
        /\ inbox' = Append(inbox,
                [data |-> ExchangeDiff(symbol, n, s),
                 buffered |-> ~fresh[symbol]])
    /\ UNCHANGED <<conVars, bookVars, refVars, netVars, depth_levels, manager, pc, reconnect_attempts,
                   last_successful_connection, stream, fetch_i, published,
                   loggers, histVars>>

\* the diff never reaches the service: no connection is read, or the
\* exchange side drops it
EmitLost ==
    /\ pc # "off"
    /\ \E symbol \in SymbolSet, n \in 1..MaxUpdates : ExchangeEmits(symbol, n)
    /\ UNCHANGED <<conVars, bookVars, refVars, netVars, depth_levels, manager, pc, reconnect_attempts,
                   last_successful_connection, stream, fetch_i, inbox,
                   published, loggers, histVars>>

SvcNext ==
    \/ ConnectOk \/ ConnectErr \/ FetchOk \/ FetchErr
    \/ RecvText \/ RecvErr \/ BackoffDone
    \/ EmitDelivered \/ EmitLost

(***************************************************************************)
(* A caller of one OrderBook: OrderBook::new, then init_snapshot and       *)
(* apply_update.                                                           *)
(***************************************************************************)
BookNew ==
    /\ \E d \in 1..MaxDepth : book = OrderBook_new("BTCUSDT", d)
    /\ call = [op |-> "new", final |-> 0, ret |-> FALSE]

CallInitSnapshot(s) ==
    /\ book' = init_snapshot(book, s)
    /\ call' = [op |-> "init_snapshot", final |-> s.last_update_id,
                ret |-> TRUE]

CallApplyUpdate(u) ==
    \E r \in {apply_update(book, u)} :
        /\ book' = r.book
        /\ call' = [op |-> "apply_update", final |-> u.final_update_id,
                    ret |-> r.ret]

NoRef == [bids |-> EmptyMap, asks |-> EmptyMap]

(***************************************************************************)
(* SpecBook: any sequence of snapshots and diffs on one book.              *)
(***************************************************************************)
BookInit == BookNew /\ ref = NoRef /\ removed = FALSE /\ LockIdle /\ SvcIdle

BookInitSnapshot ==
    /\ UNCHANGED <<conVars, refVars, svcVars, netVars>>
    /\ \E s \in Snapshots : CallInitSnapshot(s)

\* apply_update reads final_update_id, event_time and the two sides of a
\* diff and never first_update_id: the diffs with U == 1 stand for every U
FromFirstId == {u \in BookUpdates : u.first_update_id = 1}

BookApplyUpdate ==
    /\ UNCHANGED <<conVars, refVars, svcVars, netVars>>
    /\ \E u \in FromFirstId : CallApplyUpdate(u)

BookNext == BookInitSnapshot \/ BookApplyUpdate

SpecBook == BookInit /\ [][BookNext]_vars

(***************************************************************************)
(* SpecSnapshot: a caller that installs any snapshot, at any time, on a    *)
(* book that diffs of one level (the bid at price 1 set, removed or made   *)
(* negative) have touched in between.                                      *)
(***************************************************************************)
TouchUpdates ==
    {u \in BookUpdates :
        /\ u.first_update_id = u.final_update_id
        /\ u.asks = <<>>
        /\ Len(u.bids) = 1 /\ u.bids[1].price = 1}

SnapshotInstall ==
    \E s \in Snapshots :
        CallInitSnapshot(s) /\ UNCHANGED <<conVars, refVars, svcVars, netVars>>

SnapshotTouch ==
    \E u \in TouchUpdates :
        CallApplyUpdate(u) /\ UNCHANGED <<conVars, refVars, svcVars, netVars>>

SnapshotNext == SnapshotInstall \/ SnapshotTouch

SpecSnapshot == BookInit /\ [][SnapshotNext]_vars

(***************************************************************************)
(* SpecRef: a book and the reference ladders are given the same snapshot   *)
(* and then the same gap-free diffs (U == last_update_id + 1) as the       *)
(* exchange sends them, with no negative quantity; the reference never     *)
(* trims.                                                                  *)
(***************************************************************************)
HasZero(levels) == \E i \in 1..Len(levels) : levels[i].quantity = 0

RefInitSnapshot ==
    \E s \in Snapshots :
        /\ NonNegative(s.bids) /\ NonNegative(s.asks)
        /\ CallInitSnapshot(s)
        /\ ref' = [bids |-> InsertPositive(EmptyMap, s.bids),
                   asks |-> InsertPositive(EmptyMap, s.asks)]
        /\ removed' = FALSE
        /\ UNCHANGED <<conVars, svcVars, netVars>>

RefApplyUpdate ==
    \E u \in BookUpdates :
        /\ book.initialized
        /\ u.first_update_id = book.last_update_id + 1
        /\ NonNegative(u.bids) /\ NonNegative(u.asks)
        /\ CallApplyUpdate(u)
        /\ ref' = [bids |-> UpdateLevels(ref.bids, u.bids),
                   asks |-> UpdateLevels(ref.asks, u.asks)]
        /\ removed' = (removed \/ HasZero(u.bids) \/ HasZero(u.asks))
        /\ UNCHANGED <<conVars, svcVars, netVars>>

RefNext == RefInitSnapshot \/ RefApplyUpdate

SpecRef == BookInit /\ [][RefNext]_vars

(***************************************************************************)
(* SpecMetrics: a book given snapshots and gap-free diffs of any           *)
(* quantity, whose state and metrics are read in every state.              *)
(***************************************************************************)
MetricsApplyUpdate ==
    \E u \in BookUpdates :
        /\ book.initialized
        /\ u.first_update_id = book.last_update_id + 1
        /\ CallApplyUpdate(u)
        /\ UNCHANGED <<conVars, refVars, svcVars, netVars>>

MetricsNext == BookInitSnapshot \/ MetricsApplyUpdate

SpecMetrics == BookInit /\ [][MetricsNext]_vars

(***************************************************************************)
(* SpecDepth: the manager as main builds it, under either DEPTH_LEVELS,    *)
(* given the snapshots fetch_snapshots installs (at most DEPTH_LEVELS      *)
(* levels a side, the REST limit) and the diffs of the stream.             *)
(***************************************************************************)
BookIdle ==
    /\ book = OrderBook_new("BTCUSDT", 1)
    /\ call = [op |-> "new", final |-> 0, ret |-> FALSE]
    /\ ref = NoRef
    /\ removed = FALSE
    /\ LockIdle

DepthInit ==
    /\ BookIdle
    /\ depth_levels \in DepthLevelChoices
    /\ manager = OrderBookManager_new
    /\ SvcQuiet

DepthInitBook ==
    \E symbol \in SymbolSet, l \in 0..MaxId, s \in SnapshotSides :
        /\ Len(s.bids) <= depth_levels /\ Len(s.asks) <= depth_levels
        /\ manager' = init_book(manager, symbol,
                [last_update_id |-> l, bids |-> s.bids, asks |-> s.asks])
        /\ UNCHANGED <<conVars, bookVars, refVars, netVars, depth_levels, pc,
                       reconnect_attempts, last_successful_connection, stream,
                       fetch_i, inbox, published, loggers, exVars, histVars>>

DepthApplyUpdate ==
    \E symbol \in SymbolSet :
      \E u \in DepthUpdates(symbol) :
        /\ [bids |-> u.bids, asks |-> u.asks] \in DiffSides
        /\ manager' = manager_apply_update(manager, u).manager
        /\ UNCHANGED <<conVars, bookVars, refVars, netVars, depth_levels, pc,
                       reconnect_attempts, last_successful_connection, stream,
                       fetch_i, inbox, published, loggers, exVars, histVars>>

DepthNext == DepthInitBook \/ DepthApplyUpdate

SpecDepth == DepthInit /\ [][DepthNext]_vars

(***************************************************************************)
(* SpecManager: a caller of one OrderBookManager: init_book for the        *)
(* configured symbols, apply_update with diffs of any symbol, among them a *)
(* configured symbol in lower case and a symbol that is not configured.    *)
(***************************************************************************)
DiffSymbols == SymbolSet \cup {"btcusdt", "XRPUSDT"}

ManagerInit == BookIdle /\ SvcIdle

ManagerInitBook ==
    \E symbol \in SymbolSet, l \in 0..MaxId, s \in SnapshotSides :
        /\ manager' = init_book(manager, symbol,
                [last_update_id |-> l, bids |-> s.bids, asks |-> s.asks])
        /\ call' = [op |-> "init_book", final |-> l, ret |-> TRUE,
                    symbol |-> symbol]
        /\ UNCHANGED <<conVars, book, refVars, netVars, depth_levels, pc,
                       reconnect_attempts, last_successful_connection, stream,
                       fetch_i, inbox, published, loggers, exVars, histVars>>

ManagerApplyUpdate ==
    \E symbol \in DiffSymbols :
      \E u \in DepthUpdates(symbol) :
        /\ [bids |-> u.bids, asks |-> u.asks] \in DiffSides
        /\ \E r \in {manager_apply_update(manager, u)} :
            /\ manager' = r.manager
            /\ call' = [op |-> "apply_update", final |-> u.final_update_id,
                        ret |-> r.ret, symbol |-> u.symbol]
        /\ UNCHANGED <<conVars, book, refVars, netVars, depth_levels, pc,
                       reconnect_attempts, last_successful_connection, stream,
                       fetch_i, inbox, published, loggers, exVars, histVars>>

ManagerNext == ManagerInitBook \/ ManagerApplyUpdate

SpecManager == ManagerInit /\ [][ManagerNext]_vars

(***************************************************************************)
(* SpecParse: a caller of ParsedMessage::parse.                            *)
(***************************************************************************)
ParseCall ==
    \E raw \in ParseFrames :
        /\ call.op = "new"
        /\ call' = [op |-> "parse", raw |-> raw, ret |-> parse(raw)]
        /\ UNCHANGED <<conVars, book, refVars, netVars, svcVars>>

SpecParse == ManagerInit /\ [][ParseCall]_vars

(***************************************************************************)
(* Spec: the running service; no caller drives the lone book.              *)
(***************************************************************************)
Init == SvcStart /\ BookIdle

Next == SvcNext

Spec == Init /\ [][Next]_vars

(***************************************************************************)
(* SpecBackoff: run under any RECONNECT_DELAY_MS, with connects and        *)
(* snapshot fetches that fail up to MaxFailures times in a row.            *)
(***************************************************************************)
\* RECONNECT_DELAY_MS: small values, the default, values around the cap,
\* and values whose product with 2^6 passes 2^64
ReconnectDelayChoices ==
    {U64(n) : n \in {0, 1, 500, 937, 938, DefaultReconnectDelayMs,
                     MAX_BACKOFF_MS}}
    \cup {<<0, 1, 0, 0>>, <<0, 0, 0, 1024>>, <<500, 0, 0, 1024>>,
          <<0, 0, 0, 32768>>, <<Limb - 1, Limb - 1, Limb - 1, Limb - 1>>}

BackoffInit ==
    /\ SvcBoot /\ BookIdle /\ PublisherUp
    /\ reconnect_delay_ms \in ReconnectDelayChoices
    /\ delay = 0

BackoffConnectErr == ConnectErrUpTo(MaxFailures)

BackoffNext == ConnectOk \/ BackoffConnectErr \/ FetchErr \/ BackoffDone

SpecBackoff == BackoffInit /\ [][BackoffNext]_vars

(***************************************************************************)
(* SpecKeepalive: the service on a connection that carries no depth diff,  *)
(* with the clock of the receive loop.                                     *)
(***************************************************************************)
KeepaliveNext ==
    \/ ConnectOk \/ FetchOk \/ BackoffDone
    \/ RecvOther \/ RecvNone \/ RecvErr \/ RecvTimeout \/ Tick

SpecKeepalive == Init /\ [][KeepaliveNext]_vars

(***************************************************************************)
(* SpecControl: the service on a connection that stays up and delivers     *)
(* pings, pongs and text frames that are no depth diffs, with pauses.      *)
(***************************************************************************)
ControlNext ==
    ConnectOk \/ FetchOk \/ RecvPing \/ RecvPong \/ RecvOther \/ Tick

SpecControl == Init /\ [][ControlNext]_vars

(***************************************************************************)
(* SpecLock: the service on a connection that stays up, with               *)
(* process_message cut at its awaits (the write guard, the publish) and    *)
(* the status logger taking and returning its read guard in between.       *)
(***************************************************************************)
LockNext ==
    \/ ConnectOk \/ FetchOk
    \/ FrameLocks \/ LockedApply \/ PublishIO
    \/ LoggerReads \/ LoggerDone

SpecLock == Init /\ [][LockNext]_vars

(***************************************************************************)
(* SpecFrames: the service on a connection that stays up and delivers text *)
(* frames of every kind.                                                   *)
(***************************************************************************)
FramesNext == ConnectOk \/ FetchOk \/ RecvFrame

SpecFrames == Init /\ [][FramesNext]_vars

(***************************************************************************)
(* SpecLive: the supervisor with every error that ends a cycle (connect,   *)
(* snapshot fetch, stream error, failed ping after a timeout), where a     *)
(* sleep that was started ends: run awaits sleep(delay) with               *)
(* delay <= MAX_BACKOFF_MS and does nothing else meanwhile.                *)
(***************************************************************************)
LiveNext == KeepaliveNext \/ ConnectErr \/ FetchErr

SpecLive == Init /\ [][LiveNext]_vars /\ WF_vars(BackoffDone)

(***************************************************************************)
(* SpecPublish: the service on a connection that stays up, with a          *)
(* consumer that comes and goes and an encoder that may fail.              *)
(***************************************************************************)
PublishInit ==
    /\ SvcBoot /\ BookIdle /\ BackoffIdle
    /\ socket \in {"absent", "refusing", "listening"}
    /\ to_vec_ok \in BOOLEAN
    /\ LET p == Publisher_new([socket |-> socket, peer_open |-> FALSE,
                               to_vec_ok |-> to_vec_ok])
       IN  pub_stream = p.self.stream /\ peer_open = p.peer_open
    /\ pub_call = NoPublish
    /\ MutexIdle

PublishNext ==
    \/ ConnectOk \/ FetchOk \/ EmitDelivered \/ RecvText
    \/ ConsumerStops \/ ConsumerStarts

SpecPublish == PublishInit /\ [][PublishNext]_vars

(***************************************************************************)
(* SpecMutex: callers whose publish calls on one Publisher overlap, cut at *)
(* the awaits of publish and connect, after a Publisher::new that did or   *)
(* did not connect, with a consumer that may refuse a connect and break a  *)
(* connection.                                                             *)
(***************************************************************************)
MutexNext ==
    \E t \in Tasks :
        \/ PubStart(t) \/ PubLock(t) \/ PubConnect(t) \/ PubStore(t)
        \/ PubRelock(t) \/ PubWrite(t)

SpecMutex == PublishInit /\ [][MutexNext]_vars

(***************************************************************************)
(* Claims on one book.                                                     *)
(***************************************************************************)
Levels(m) == Cardinality(DOMAIN m)

\* C7: after any sequence of init_snapshot and apply_update calls each
\* side holds at most max_depth levels.
ThmC7_DepthBounded ==
    /\ Levels(book.bids) <= book.max_depth
    /\ Levels(book.asks) <= book.max_depth

\* an accepted diff has just left both sides full
WitC7_FullAfterUpdate ==
    /\ call.op = "apply_update" /\ call.ret
    /\ Levels(book.bids) = book.max_depth
    /\ Levels(book.asks) = book.max_depth

\* C9: every level retained on either side has quantity > 0, whatever the
\* quantities (zero, positive, negative) of the snapshots and diffs were.
CexC9_AllQuantitiesPositive ==
    /\ \A p \in DOMAIN book.bids : book.bids[p] > 0
    /\ \A p \in DOMAIN book.asks : book.asks[p] > 0

\* C10 as claimed: last_update_id never decreases, re-initialisation by a
\* snapshot included, and after an accepted diff it is the diff's
\* final_update_id.
CexC10_NeverDecreases ==
    [][/\ book'.last_update_id >= book.last_update_id
       /\ (call'.op = "apply_update" /\ call'.ret
             => book'.last_update_id = call'.final)]_vars

\* C10 amended: apply_update never decreases last_update_id and an accepted
\* diff sets it to its final_update_id; init_snapshot sets it to the
\* snapshot's last_update_id.
ThmC10_UpdateIdUnderCalls ==
    [][/\ (call'.op = "apply_update"
             => book'.last_update_id >= book.last_update_id)
       /\ (call'.op = "apply_update" /\ call'.ret
             => book'.last_update_id = call'.final)
       /\ (call'.op = "init_snapshot"
             => book'.last_update_id = call'.final)]_vars

\* an accepted diff has moved last_update_id of an initialised book
WitC10_AcceptedDiff ==
    /\ call.op = "apply_update" /\ call.ret
    /\ book.last_update_id = call.final
    /\ book.last_update_id > 1

\* C11: apply_update with final_update_id <= last_update_id returns false
\* and leaves the whole book as it was; every diff that is applied has
\* final_update_id > last_update_id when it is applied.
ThmC11_StaleDiffIsNoOp ==
    [][call'.op = "apply_update"
         => /\ (call'.final <= book.last_update_id
                  => ~call'.ret /\ book' = book)
            /\ (call'.ret => call'.final > book.last_update_id)]_vars

\* a stale diff was refused by an initialised book that holds levels
WitC11_StaleRefused ==
    /\ call.op = "apply_update" /\ ~call.ret
    /\ book.initialized /\ call.final <= book.last_update_id
    /\ book.bids # EmptyMap /\ book.last_update_time # 0

\* C12 as claimed: init_snapshot(S) twice gives the book init_snapshot(S)
\* gives once, and that book depends on S and max_depth only.
CexC12_SnapshotResultFromInputOnly ==
    \A s \in Snapshots :
        \A once \in {init_snapshot(book, s)} :
            /\ init_snapshot(once, s) = once
            /\ once = init_snapshot(OrderBook_new(book.symbol,
                                                 book.max_depth), s)

\* C12 amended: init_snapshot(S) twice gives the book it gives once; its
\* ladders, last_update_id and initialized depend on S and max_depth only,
\* and last_update_time is the one the book had before.
ThmC12_SnapshotIdempotent ==
    \A s \in Snapshots :
        \A once \in {init_snapshot(book, s)} :
            /\ init_snapshot(once, s) = once
            /\ once = [init_snapshot(OrderBook_new(book.symbol,
                                                  book.max_depth), s)
                         EXCEPT !.last_update_time = book.last_update_time]

\* a snapshot was installed on a book that had applied a diff before
WitC12_ReinstalledOnUsedBook ==
    /\ call.op = "init_snapshot"
    /\ book.last_update_time # 0
    /\ book.bids # EmptyMap

\* C13 as claimed: a connect that succeeds leaves the reconnect counter as
\* it is; the counter goes to 0 only by the cooldown test at the top of the
\* loop, which needs an earlier successful connection.
CexC13_ConnectKeepsCounter ==
    [][(pc = "run" /\ pc' = "fetch")
         => \/ reconnect_attempts' = reconnect_attempts
            \/ last_successful_connection /\ reconnect_attempts' = 0]_vars

\* the delay the reconnect policy gives after the n-th counted failure,
\* in milliseconds: min(base * 2^min(n, 6), 60 s), over the integers
PolicyDelay(base, n) ==
    IF base_delay(base, n).overflow THEN MAX_BACKOFF_MS
    ELSE u64_min(base_delay(base, n).wrapped, MAX_BACKOFF_MS)

\* C14 as claimed: after the n-th counted failure run waits exactly
\* min(RECONNECT_DELAY_MS * 2^min(n, 6), 60 s).
CexC14_WaitsPolicyDelay ==
    /\ pc # "panic"
    /\ pc = "backoff" => delay = PolicyDelay(reconnect_delay_ms, reconnect_attempts)

\* C15 as claimed: a connection with no inbound frame for recv_timeout is
\* pinged, and if still no frame arrives within a further recv_timeout it is
\* torn down: no open connection stays silent longer than that.
CexC15_SilentConnectionTornDown ==
    pc = "stream" => silent <= 2 * recv_timeout

\* C16 as claimed: once an open connection has carried no inbound frame for
\* more than keepalive_timeout, an outbound ping has been sent.
CexC16_PingAfterKeepaliveTimeout ==
    pc = "stream" /\ silent > keepalive_timeout => pings > 0

\* C17 as claimed: publish never returns an error to its caller, whatever
\* fails.
CexC17_PublishNeverErr ==
    pub_call.ret # "Err"

ThmC19_RetriesForever ==
    /\ [](pc \in {"run", "fetch", "stream", "backoff"})
    /\ (pc = "backoff" ~> pc = "run")

\* after MaxAttempts failures in a row and no success yet, run is about to
\* connect again
WitC19_ConnectsAfterFailures ==
    /\ pc = "run"
    /\ reconnect_attempts >= MaxAttempts
    /\ ~last_successful_connection

\* C20: a snapshot fetch that fails ends the cycle as a stream failure: the
\* failure is counted and run backs off, no diff of the connection is or
\* will be processed, and the receive loop is entered only from the fetch
\* of the last symbol, with every book installed on the connection in use.
ThmC20_FetchFailureEndsCycle ==
    [][pc = "fetch"
         => /\ published' = published
            /\ pc' \notin {"fetch", "stream"}
                 => /\ pc' = "backoff"
                    /\ reconnect_attempts' = reconnect_attempts + 1
                    /\ delay' = backoff_delay(reconnect_delay_ms,
                                              reconnect_attempts')
                    /\ inbox' = <<>>
                    /\ applied' = applied
                    /\ manager' = manager
                    /\ \A s \in SymbolSet : ~fresh'[s]
            /\ pc' = "stream"
                 => /\ fetch_i = Len(Symbols)
                    /\ \A s \in SymbolSet : fresh'[s]]_vars

\* the fetch for the second symbol failed after the first book was
\* installed and a diff had arrived: run backs off with the failure counted
WitC20_FetchFailedAfterFirstBook ==
    /\ pc = "backoff" /\ stream
    /\ reconnect_attempts = 1
    /\ delay = 2 * DefaultReconnectDelayMs
    /\ DOMAIN manager.books = {Symbols[1]}
    /\ \E s \in SymbolSet : exId[s] > 0

\* the n best levels of a side: highest bids, lowest asks
BestBids(m, n) ==
    [p \in {x \in DOMAIN m : Cardinality({y \in DOMAIN m : y > x}) < n} |-> m[p]]
BestAsks(m, n) ==
    [p \in {x \in DOMAIN m : Cardinality({y \in DOMAIN m : y < x}) < n} |-> m[p]]

SubLadder(m, r) == \A p \in DOMAIN m : p \in DOMAIN r /\ r[p] = m[p]

\* C6 as claimed: after a snapshot and any gap-free diffs each side of the
\* book is the best max_depth levels of the untrimmed reference.
CexC6_EqualsBestOfReference ==
    book.initialized =>
        /\ book.bids = BestBids(ref.bids, book.max_depth)
        /\ book.asks = BestAsks(ref.asks, book.max_depth)

\* C6 amended: each side of the book is part of the reference side (same
\* prices, same quantities), and it is the best max_depth levels of the
\* reference as long as no diff since the snapshot removed a level.
ThmC6_WithinReference ==
    book.initialized =>
        /\ SubLadder(book.bids, ref.bids)
        /\ SubLadder(book.asks, ref.asks)
        /\ (~removed =>
              /\ book.bids = BestBids(ref.bids, book.max_depth)
              /\ book.asks = BestAsks(ref.asks, book.max_depth))

\* an accepted diff has pushed the reference bids beyond max_depth and the
\* book holds the best of them
WitC6_TrimmedAgainstReference ==
    /\ call.op = "apply_update" /\ call.ret /\ ~removed
    /\ Levels(ref.bids) > book.max_depth
    /\ Levels(book.bids) = book.max_depth
    /\ book.bids = BestBids(ref.bids, book.max_depth)

(***************************************************************************)
(* The service claims, under Spec; C8 under SpecDepth.                     *)
(***************************************************************************)
\* the receive loop takes a frame off the stream and goes on
Received ==
    /\ pc = "stream" /\ pc' = "stream"
    /\ inbox # <<>> /\ Len(inbox') < Len(inbox)

\* the diff of that frame, and whether this step applied it
Frame == Head(inbox)
Diff == Frame.data
DiffApplied == manager'.books[Diff.symbol] # manager.books[Diff.symbol]
FinalsApplied(symbol) == {a.final : a \in applied[symbol]}

\* C1: while streaming (the book has taken a diff since its snapshot) a
\* diff is applied exactly when its first_update_id is last_update_id + 1;
\* any other diff is a gap and is not applied.
CexC1_AppliedIffNextInSequence ==
    [][Received /\ applied[Diff.symbol] # {}
         => (DiffApplied <=> Diff.first_update_id =
                 manager.books[Diff.symbol].last_update_id + 1)]_vars

\* C2: the first diff applied after a snapshot with lastUpdateId L has
\* first_update_id <= L + 1 <= final_update_id.
CexC2_FirstDiffStraddlesSnapshot ==
    [][Received /\ applied[Diff.symbol] = {} /\ DiffApplied
         => /\ Diff.first_update_id <= snapL[Diff.symbol] + 1
            /\ snapL[Diff.symbol] + 1 <= Diff.final_update_id]_vars

\* C3: a published state with last_update_id X reflects every diff the
\* exchange emitted since the book's snapshot with final_update_id <= X, and
\* no other, whatever diffs were delayed or dropped and whatever reconnects
\* happened.
CexC3_PublishedReflectsEmitted ==
    \A s \in SymbolSet :
        (s \in DOMAIN manager.books /\ published = state(manager.books[s])
           /\ applied[s] # {})
        => FinalsApplied(s) =
             {e[2] : e \in {x \in emitted[s] :
                 snapL[s] < x[2] /\ x[2] <= published.last_update_id}}

\* C4: on every connect and reconnect the stream is opened first and a
\* fresh snapshot is then installed for every symbol; a diff is applied
\* only to a book that was re-initialised on the connection in use.
ThmC4_SnapshotOnEveryConnect ==
    [][/\ (pc = "run" /\ pc' = "fetch"
             => stream' /\ \A s \in SymbolSet : ~fresh'[s])
       /\ (pc' = "stream"
             => \A s \in SymbolSet :
                  /\ fresh'[s] /\ s \in DOMAIN manager'.books
                  /\ manager'.books[s].initialized)
       /\ \A s \in SymbolSet :
            (s \in DOMAIN manager.books /\ s \in DOMAIN manager'.books
               /\ manager'.books[s] # manager.books[s] /\ fresh'[s] = fresh[s])
            => fresh[s] /\ stream /\ pc = "stream"]_vars

\* a diff is applied on the second connection, after the books were
\* installed again
WitC4_AppliedAfterReconnect ==
    /\ pc = "stream" /\ loggers = 2
    /\ \E s \in SymbolSet : applied[s] # {} /\ fresh[s]

CexC8_DepthIsConfigured ==
    \A s \in DOMAIN manager.books :
        /\ manager.books[s].max_depth = depth_levels
        /\ Levels(manager.books[s].bids) <= depth_levels
        /\ Levels(manager.books[s].asks) <= depth_levels

RepeatUpdates ==
    {[symbol |-> "BTCUSDT", event_time |-> 1,
      first_update_id |-> f, final_update_id |-> f,
      bids |-> <<[price |-> p, quantity |-> q1], [price |-> p, quantity |-> q2]>>,
      asks |-> <<[price |-> p, quantity |-> q2], [price |-> p, quantity |-> q1]>>] :
        f \in 1..MaxId, p \in Prices, q1 \in Quantities, q2 \in Quantities}

\* the side a diff asks for: a price the diff names gets the quantity of its
\* last entry, or leaves the side if that quantity is 0, whether it was
\* there or not; every other price keeps its quantity
Named(levels) == {levels[i].price : i \in 1..Len(levels)}
LastQuantity(levels, p) ==
    levels[Max({i \in 1..Len(levels) : levels[i].price = p})].quantity
SideAfter(m, levels) ==
    [p \in {x \in DOMAIN m \cup Named(levels) :
                x \in Named(levels) => LastQuantity(levels, x) # 0}
        |-> IF p \in Named(levels) THEN LastQuantity(levels, p) ELSE m[p]]

\* C29: an accepted diff removes each price it gives with quantity 0 (a
\* no-op when the price is absent) and sets each other price it gives to
\* the given quantity, the last entry for a price winning; the prices it
\* does not name keep their quantity unless the trim evicts them.
ThmC29_DiffSetsAndRemoves ==
    \A u \in BookUpdates \cup RepeatUpdates :
        \A r \in {apply_update(book, u)} :
            r.ret =>
                /\ r.book.bids = BestBids(SideAfter(book.bids, u.bids),
                                          book.max_depth)
                /\ r.book.asks = BestAsks(SideAfter(book.asks, u.asks),
                                          book.max_depth)

\* an accepted diff with a zero quantity has been applied and the book
\* still holds a level the diff did not name
WitC29_ZeroQuantityApplied ==
    /\ call.op = "apply_update" /\ call.ret
    /\ removed
    /\ Levels(book.bids) + Levels(book.asks) > 0

ThmC26_DispatchBySymbol ==
    [][call'.op = "apply_update" /\ call' # call
         => /\ DOMAIN manager'.books = DOMAIN manager.books
            /\ \A k \in DOMAIN manager.books :
                 k # call'.symbol => manager'.books[k] = manager.books[k]
            /\ \/ call'.symbol \notin DOMAIN manager.books
               \/ ~manager.books[call'.symbol].initialized
               => ~call'.ret /\ manager' = manager
            /\ call'.ret
                 => manager'.books[call'.symbol].last_update_id = call'.final
            /\ \A sym \in DOMAIN manager.books :
               \A first \in 1..call'.final, s \in DiffSides, t \in EventTimes :
                 LET unready == [manager EXCEPT !.books[sym] =
                                    OrderBook_new(sym, manager.max_depth)]
                     u == [symbol |-> sym, event_time |-> t,
                           first_update_id |-> first,
                           final_update_id |-> call'.final,
                           bids |-> s.bids, asks |-> s.asks]
                 IN  manager_apply_update(unready, u)
                       = [manager |-> unready, ret |-> FALSE]]_vars

\* a diff for "btcusdt" was refused while "BTCUSDT" and "ETHUSDT" have books
WitC26_LowerCaseSymbolRefused ==
    /\ call.op = "apply_update" /\ ~call.ret
    /\ call.symbol = "btcusdt"
    /\ DOMAIN manager.books = SymbolSet
    /\ call.final > manager.books["BTCUSDT"].last_update_id

\* a level array of the frame has not exactly two elements
BadArity(raw) ==
    /\ raw.json /\ raw.data.fields = "depth"
    /\ \/ \E i \in 1..Len(raw.data.b) : Len(raw.data.b[i]) # 2
       \/ \E i \in 1..Len(raw.data.a) : Len(raw.data.a[i]) # 2

\* C27: a depth event holding a price-level array of arity other than 2 is
\* rejected with a parse error, as a bare event object and under a
\* {stream, data} wrapper alike; it never comes back as Unknown or as a
\* depth diff.
CexC27_BadArityIsParseError ==
    call.op = "parse" /\ BadArity(call.raw)
    /\ (call.raw.stream = "none" \/ contains(call.raw.stream, "depth"))
        => call.ret.tag = "Err"

\* C21: a text frame on which parse returns an error is logged and dropped:
\* no book changes, nothing is published, no reconnect attempt is counted,
\* the connection stays open and the receive loop goes on with it.
ThmC21_ParseErrorIsDiscarded ==
    [][call'.op = "process_message" /\ call'.tag = "Err"
         => /\ UNCHANGED <<conVars, manager, published, pubVars, reconnect_attempts,
                           backoffVars, last_successful_connection>>
            /\ stream /\ stream'
            /\ pc = "stream" /\ pc' = "stream"]_vars

\* a frame was dropped with a parse error after diffs had been applied
WitC21_ParseErrorWhileStreaming ==
    /\ call.op = "process_message" /\ call.tag = "Err"
    /\ pc = "stream" /\ stream
    /\ manager.books["BTCUSDT"].last_update_id > 0
    /\ published # NoState

\* C22: while streaming, publish is called for each diff that apply_update
\* accepts, once, with the state of the diff's symbol as the diff left it
\* (its last_update_id is the diff's final_update_id); it is not called
\* for a diff that is refused, a trade or an unknown message.
ThmC22_PublishPerAcceptedDiff ==
    [][call'.op = "process_message"
         => IF call'.ret
            THEN /\ call'.tag = "DepthUpdate"
                 /\ published' = get_state(manager', call'.symbol)
                 /\ published'.symbol = call'.symbol
                 /\ published'.last_update_id = call'.final
                 /\ pub_call'.ret # "none"
            ELSE UNCHANGED <<conVars, published, pubVars>>]_vars

\* the ETHUSDT book was published after a diff, the BTCUSDT book had been
\* before
WitC22_SecondSymbolPublished ==
    /\ call.op = "process_message" /\ call.ret
    /\ call.symbol = "ETHUSDT"
    /\ published.symbol = "ETHUSDT"
    /\ published.last_update_id = call.final
    /\ manager.books["BTCUSDT"].last_update_id > 0

\* the frames of a type among the sends of the last recv
SendsOf(type) ==
    {i \in 1..Len(call.sends) : call.sends[i].type = type}

\* C25 as stated: every ping that comes in is answered with exactly one
\* pong of the same payload (a pong went out); a ping or pong changes no
\* book and publishes nothing.
CexC25_EveryPingAnswered ==
    call.op = "recv" /\ call.frame.type = "Ping"
        => /\ Cardinality(SendsOf("Pong")) = 1
           /\ \A i \in SendsOf("Pong") :
                call.sends[i].ok /\ call.sends[i].data = call.frame.data

\* C25: for every ping that comes in, recv sends exactly one pong, with the
\* ping's payload, and goes on whether or not the send went through; a pong
\* that comes in is not answered; neither changes a book or publishes.
ThmC25_OnePongSendPerPing ==
    [][call'.op = "recv" /\ call' # call
         => /\ Cardinality(SendsOf("Pong")') =
                 IF call'.frame.type = "Ping" THEN 1 ELSE 0
            /\ \A i \in SendsOf("Pong")' :
                 call'.sends[i].data = call'.frame.data
            /\ UNCHANGED <<conVars, manager, published, pubVars, stream, pc,
                           reconnect_attempts>>]_vars

\* a ping with a payload came in and the pong could not be sent
WitC25_PongSendFailed ==
    /\ call.op = "recv" /\ call.frame.type = "Ping"
    /\ call.frame.data # <<>>
    /\ \E i \in SendsOf("Pong") : ~call.sends[i].ok
    /\ pc = "stream"

\* C23: the write guard of the book manager is never out while the
\* publisher does its I/O: it is dropped before publish is called, so a
\* reader is granted its guard while a publish is pending.
ThmC23_NoGuardAcrossPublish ==
    pc = "publish" => ~writer /\ (readers < loggers => ENABLED LoggerReads)

\* a status logger holds its read guard while a publish is pending
WitC23_ReaderDuringPublish ==
    /\ pc = "publish"
    /\ readers > 0
    /\ published.last_update_id > 0

\* on a connection, every length is followed by the payload of its frame
\* and every payload follows the length of its frame
WholeFrames(w) ==
    \A i \in 1..Len(w) :
        IF w[i].part = "len"
        THEN i < Len(w) =>
                w[i + 1] = [frame |-> w[i].frame, part |-> "payload"]
        ELSE i > 1 /\ w[i - 1] = [frame |-> w[i].frame, part |-> "len"]

\* C24: however publish calls on one publisher overlap, a frame (length,
\* then payload) goes out under the guard of the mutex, to the connection
\* the handle holds at that time, and between its length and its payload
\* no byte of another frame reaches that connection.
ThmC24_FramesNeverInterleave ==
    [][\A c \in DOMAIN wire :
        /\ WholeFrames(wire'[c])
        /\ wire'[c] # wire[c]
             => /\ pub_stream /\ c = stored
                /\ mutex # 0
                /\ task[mutex].pc \in {"write_len", "write_payload"}
                /\ wire'[c] = Append(wire[c],
                                     [frame |-> <<mutex, task[mutex].calls>>,
                                      part |-> IF task[mutex].pc = "write_len"
                                               THEN "len" ELSE "payload"])
        /\ wire[c] # <<>> /\ wire[c][Len(wire[c])].part = "len"
             => \/ wire'[c] = wire[c]
                \/ wire'[c] = Append(wire[c],
                        [frame |-> wire[c][Len(wire[c])].frame,
                         part |-> "payload"])]_vars

\* one caller is between the length and the payload of its frame, on a
\* connection that a call has opened, while another caller waits for the
\* guard
WitC24_WaitsWhileOtherWrites ==
    \E t \in Tasks, o \in Tasks :
        /\ t # o
        /\ task[t].pc = "write_payload" /\ mutex = t
        /\ task[o].pc \in {"lock", "relock"}
        /\ stored > 0
        /\ wire[stored] = <<[frame |-> <<t, task[t].calls>>, part |-> "len"]>>

\* the sign of a Decimal kept as num / den, den > 0
Sign(x) == IF x > 0 THEN 1 ELSE IF x < 0 THEN -1 ELSE 0

\* C31: state() lists every level the book holds, bids from the highest
\* price down and asks from the lowest price up, no price twice; best_bid
\* is the first and highest bid price, best_ask the first and lowest ask
\* price, each None exactly when its side is empty; mid_price is None when
\* a side is empty.
ThmC31_StateInCanonicalOrder ==
    \A s \in {OrderBookState(book)} :
        /\ Len(s.bids) = Levels(book.bids) /\ Len(s.asks) = Levels(book.asks)
        /\ \A i \in 1..Len(s.bids) :
             /\ s.bids[i].price \in DOMAIN book.bids
             /\ s.bids[i].quantity = book.bids[s.bids[i].price]
             /\ i > 1 => s.bids[i - 1].price > s.bids[i].price
        /\ \A i \in 1..Len(s.asks) :
             /\ s.asks[i].price \in DOMAIN book.asks
             /\ s.asks[i].quantity = book.asks[s.asks[i].price]
             /\ i > 1 => s.asks[i - 1].price < s.asks[i].price
        /\ best_bid(book).some <=> DOMAIN book.bids # {}
        /\ best_ask(book).some <=> DOMAIN book.asks # {}
        /\ best_bid(book).some
             => /\ best_bid(book) = Some(s.bids[1].price, 1)
                /\ \A p \in DOMAIN book.bids : p <= best_bid(book).num
        /\ best_ask(book).some
             => /\ best_ask(book) = Some(s.asks[1].price, 1)
                /\ \A p \in DOMAIN book.asks : p >= best_ask(book).num
        /\ DOMAIN book.bids = {} \/ DOMAIN book.asks = {}
             => ~s.mid_price.some

\* a book with two bids and an ask after an accepted diff
WitC31_TwoBidsAndAnAsk ==
    /\ call.op = "apply_update" /\ call.ret
    /\ Levels(book.bids) = 2 /\ Levels(book.asks) = 1
    /\ mid_price(book).some

\* the quantity a ladder holds
RECURSIVE Volume(_)
Volume(m) ==
    IF DOMAIN m = {} THEN 0
    ELSE LET p == CHOOSE x \in DOMAIN m : TRUE IN m[p] + Volume(MapRemove(m, p))

\* C32: imbalance(N) is None exactly when the quantity of the top N bids
\* plus that of the top N asks is <= 0, so for an empty book it is None
\* and not zero; otherwise its sign is the sign of the bid volume minus
\* the ask volume, negative where the asks outweigh the bids.
ThmC32_ImbalanceNoneOrSigned ==
    \A n \in 0..(MaxDepth + 1) :
      \A r \in {imbalance(book, n)} :
        LET bid_volume == Volume(BestBids(book.bids, n))
            ask_volume == Volume(BestAsks(book.asks, n))
        IN  /\ ~r.some <=> bid_volume + ask_volume <= 0
            /\ r.some => /\ r.den > 0
                          /\ Sign(r.num) = Sign(bid_volume - ask_volume)
            /\ DOMAIN book.bids = {} /\ DOMAIN book.asks = {} => r = None

\* two asks outweigh the one bid: the imbalance is negative
WitC32_AsksOutweighBids ==
    /\ call.op = "apply_update" /\ call.ret
    /\ Levels(book.asks) = 2 /\ Levels(book.bids) = 1
    /\ imbalance(book, 5).some
    /\ imbalance(book, 5).num < 0
    /\ imbalance(book, 1).num = 0

\* C33: at any time at most one status-logger task is alive, however many
\* times the service has disconnected and reconnected.
CexC33_AtMostOneLogger == loggers <= 1

\* C34: a pong, or any frame that is no data, that comes in more than
\* keepalive_timeout after the last data frame does not make the
\* supervisor send a ping each time: a frame that follows, with no time
\* gone by, a frame that was answered with a ping brings no further ping.
CexC34_NoPingPerControlFrame ==
    [][call'.op = "recv" /\ call' # call /\ silent = 0 /\ pings > 0
         => SendsOf("Ping")' = {}]_vars

\* C35: a book the manager holds stays in it and stays initialized: a
\* stream error, a failed connect and a failed snapshot fetch leave every
\* book as it was, ladders and last_update_id; only an installed snapshot
\* and an applied diff change one.
ThmC35_BooksOutliveTheConnection ==
    [][/\ DOMAIN manager.books \subseteq DOMAIN manager'.books
       /\ \A k \in DOMAIN manager'.books : manager'.books[k].initialized
       /\ pc' \in {"backoff", "panic"} \/ pc \in {"run", "backoff"}
            => manager' = manager
       /\ manager' # manager => pc \in {"fetch", "stream"}]_vars

\* the service sleeps after an error with both books in place, one of them
\* ahead of its snapshot
WitC35_BooksKeptWhileDown ==
    /\ pc = "backoff"
    /\ ~stream
    /\ DOMAIN manager.books = SymbolSet
    /\ \E k \in SymbolSet :
         /\ applied[k] # {}
         /\ manager.books[k].last_update_id > snapL[k]
====
